---- MODULE Spec2Model ----
(***************************************************************************)
(* A model of the style cascade and block layout core of the browser       *)
(* engine: src/src/css.rs, src/src/dom.rs, src/src/style.rs and            *)
(* src/src/layout.rs.                                                      *)
(*                                                                         *)
(* Numbers.  The program computes with f32.  The model draws every         *)
(* specified length from the whole pixels and stores a number v as the     *)
(* integer 2*v (a count of half pixels), so that the one division of the   *)
(* program, underflow / 2.0, is exact.  Within the bounds every value is a *)
(* multiple of 0.5 far below 2^24, where f32 addition, subtraction and     *)
(* halving are exact too.                                                  *)
(*                                                                         *)
(* Strings.  A Rust String is modelled as the sequence of its characters,  *)
(* each character a one-character TLA+ string, so that splitting a string  *)
(* is computed and not assumed.  Property names and CSS keywords, which    *)
(* the program only compares for equality, are TLA+ strings.               *)
(***************************************************************************)
EXTENDS Integers, Sequences, FiniteSets, TLC

VARIABLES
    pc,                        \* position of the program in the operation under check
    style_root,                \* style::StyledNode handed to the layout module
    initial_containing_block,  \* layout::Dimensions the caller passes to layout_tree
    local_containing_block,    \* layout_tree's own (mut) copy of that argument
    root_box,                  \* layout::LayoutBox under construction / layout
    element,                   \* dom::ElementData (or whole dom::Node) being styled
    stylesheet_tree,           \* css::Stylesheet (its rules)
    specified,                 \* style::PropertyMap produced for the element
    selectors,                 \* the Vec<Selector> of one css::Rule
    matched,                   \* what matching the element against them gave
    returned                   \* value returned by the accessor under check,
                               \* or the index of the loop under check

\* The state of the layout module and the state of the style module.
layout_vars == <<style_root, initial_containing_block, local_containing_block,
                 root_box, returned>>

style_vars == <<element, stylesheet_tree, specified, selectors, matched>>

vars == <<pc, layout_vars, style_vars>>

\* Value of a variable that the operation under check does not use.
Unused == [tag |-> "Unused"]

\* The layout module has not been entered.
LayoutUnused ==
    /\ style_root = Unused /\ initial_containing_block = Unused
    /\ local_containing_block = Unused /\ root_box = Unused
    /\ returned = Unused

\* The style module has not been entered.
StyleUnused ==
    /\ element = Unused /\ stylesheet_tree = Unused /\ specified = Unused
    /\ selectors = Unused /\ matched = Unused

(***************************************************************************)
(* css.rs : Value                                                          *)
(***************************************************************************)
\* Value::Keyword(String)
Keyword(s) == [tag |-> "Keyword", kw |-> s]

\* Value::Length(f32, Unit::Px); v is the number of half pixels
Length(v) == [tag |-> "Length", v |-> v]

\* Value::ColorValue(Color)
ColorValue(r, g, b, a) == [tag |-> "ColorValue", r |-> r, g |-> g, b |-> b, a |-> a]

\* A length of n whole pixels.
Px(n) == Length(2 * n)

\* Value::to_px: the number of a Length, 0 for every other value
to_px(val) == IF val.tag = "Length" THEN val.v ELSE 0

\* Option<T>
None == [tag |-> "None"]
Some(x) == [tag |-> "Some", v |-> x]

(***************************************************************************)
(* style.rs : StyledNode                                                   *)
(***************************************************************************)
\* struct StyledNode { node, specified_values, children }
StyledNode(sv, kids) == [specified_values |-> sv, children |-> kids]

\* StyledNode::value that finds no property.
value_never_specified(style, name) == None

\* StyledNode::value
value(style, name) ==
    IF name \in DOMAIN style.specified_values
    THEN Some(style.specified_values[name])
    ELSE None

\* StyledNode::lookup: the first of name, fallback_name that is specified, else default
lookup(style, name, fallback_name, default) ==
    LET first == value(style, name)
        second == value(style, fallback_name)
    IN  IF first.tag = "Some" THEN first.v
        ELSE IF second.tag = "Some" THEN second.v
        ELSE default

\* StyledNode::display that takes a display value that is not a keyword for
\* display: none.
display_non_keyword_as_none(style) ==
    LET v == value(style, "display")
    IN  IF v.tag = "Some" /\ v.v.tag = "Keyword"
        THEN CASE v.v.kw = "block" -> "Block"
               [] v.v.kw = "none" -> "None"
               [] OTHER -> "Inline"
        ELSE IF v.tag = "Some" THEN "None" ELSE "Inline"

\* StyledNode::display
display(style) ==
    LET v == value(style, "display")
    IN  IF v.tag = "Some" /\ v.v.tag = "Keyword"
        THEN CASE v.v.kw = "block" -> "Block"
               [] v.v.kw = "none" -> "None"
               [] OTHER -> "Inline"
        ELSE "Inline"

(***************************************************************************)
(* layout.rs : Rect, EdgeSizes, Dimensions, LayoutBox                      *)
(***************************************************************************)
Rect(x, y, w, h) == [x |-> x, y |-> y, width |-> w, height |-> h]

EdgeSizes(l, r, t, b) == [left |-> l, right |-> r, top |-> t, bottom |-> b]

\* Default::default() of Dimensions: every field 0.0
DefaultDimensions ==
    [content |-> Rect(0, 0, 0, 0),
     padding |-> EdgeSizes(0, 0, 0, 0),
     border  |-> EdgeSizes(0, 0, 0, 0),
     margin  |-> EdgeSizes(0, 0, 0, 0)]

\* Rect::expanded_by that grows the rectangle without moving its origin.
expanded_by_origin_kept(rect, edge) ==
    Rect(rect.x,
         rect.y,
         rect.width + edge.left + edge.right,
         rect.height + edge.top + edge.bottom)

\* Rect::expanded_by
expanded_by(rect, edge) ==
    Rect(rect.x - edge.left,
         rect.y - edge.top,
         rect.width + edge.left + edge.right,
         rect.height + edge.top + edge.bottom)

\* Dimensions::padding_box
padding_box(d) == expanded_by(d.content, d.padding)

\* Dimensions::border_box
border_box(d) == expanded_by(padding_box(d), d.border)

\* Dimensions::margin_box
margin_box(d) == expanded_by(border_box(d), d.margin)

\* enum BoxType
BlockNode(style) == [tag |-> "BlockNode", node |-> style]
InlineNode(style) == [tag |-> "InlineNode", node |-> style]
AnonymousBlock == [tag |-> "AnonymousBlock"]

\* LayoutBox::new
NewLayoutBox(box_type) ==
    [dimensions |-> DefaultDimensions, box_type |-> box_type, children |-> <<>>]

\* The outcome of a panic!().
Panic(msg) == [tag |-> "Panic", msg |-> msg]

IsPanic(x) == "tag" \in DOMAIN x /\ x.tag = "Panic"

\* LayoutBox::get_style_node
get_style_node(self) ==
    IF self.box_type.tag \in {"BlockNode", "InlineNode"}
    THEN self.box_type.node
    ELSE Panic("Anonymous block box has no style node")

\* the fold of fn sum over a sequence of numbers
RECURSIVE sum(_)
sum(s) == IF s = <<>> THEN 0 ELSE s[1] + sum(Tail(s))

(***************************************************************************)
(* layout.rs : the block layout algorithm                                  *)
(***************************************************************************)
auto == Keyword("auto")

zero == Length(0)

\* The check for a box that is too big, setting only an auto margin_right
\* to zero.
overflow_margins_right_only(width, m, total, containing_block) ==
    IF width # auto /\ total > containing_block.content.width
    THEN <<m[1], IF m[2] = auto THEN Length(0) ELSE m[2]>>
    ELSE m

\* calculate_block_width without the check for a box that is too big: auto
\* margins stay auto.
overflow_margins_auto_kept(width, m, total, containing_block) == m

\* calculate_block_width, lines 268-276: the margins after the check for a
\* box that is too big.  m is <<margin_left, margin_right>>.
overflow_margins(width, m, total, containing_block) ==
    IF width # auto /\ total > containing_block.content.width
    THEN <<IF m[1] = auto THEN Length(0) ELSE m[1],
           IF m[2] = auto THEN Length(0) ELSE m[2]>>
    ELSE m

\* solve_width whose width-auto arm drops an overflow instead of moving it
\* into margin_right.
solve_width_overflow_dropped(width, margin_left, margin_right, underflow) ==
    CASE width # auto /\ margin_left # auto /\ margin_right # auto ->
            <<width, margin_left, Length(to_px(margin_right) + underflow)>>
      [] width # auto /\ margin_left = auto /\ margin_right # auto ->
            <<width, Length(underflow), margin_right>>
      [] width # auto /\ margin_left # auto /\ margin_right = auto ->
            <<width, margin_left, Length(underflow)>>
      [] width = auto ->
            LET ml == IF margin_left = auto THEN Length(0) ELSE margin_left
                mr == IF margin_right = auto THEN Length(0) ELSE margin_right
            IN  IF underflow >= 0
                THEN <<Length(underflow), ml, mr>>
                ELSE <<Length(0), ml, mr>>
      [] width # auto /\ margin_left = auto /\ margin_right = auto ->
            <<width, Length(underflow \div 2), Length(underflow \div 2)>>

\* solve_width whose both-margins-auto arm gives the whole underflow to
\* margin_left.
solve_width_both_auto_left(width, margin_left, margin_right, underflow) ==
    CASE width # auto /\ margin_left # auto /\ margin_right # auto ->
            <<width, margin_left, Length(to_px(margin_right) + underflow)>>
      [] width # auto /\ margin_left = auto /\ margin_right # auto ->
            <<width, Length(underflow), margin_right>>
      [] width # auto /\ margin_left # auto /\ margin_right = auto ->
            <<width, margin_left, Length(underflow)>>
      [] width = auto ->
            LET ml == IF margin_left = auto THEN Length(0) ELSE margin_left
                mr == IF margin_right = auto THEN Length(0) ELSE margin_right
            IN  IF underflow >= 0
                THEN <<Length(underflow), ml, mr>>
                ELSE <<Length(0), ml, Length(to_px(mr) + underflow)>>
      [] width # auto /\ margin_left = auto /\ margin_right = auto ->
            <<width, Length(underflow), Length(0)>>

\* solve_width whose none-auto arm moves the underflow into margin_left.
solve_width_none_auto_left(width, margin_left, margin_right, underflow) ==
    CASE width # auto /\ margin_left # auto /\ margin_right # auto ->
            <<width, Length(to_px(margin_left) + underflow), margin_right>>
      [] width # auto /\ margin_left = auto /\ margin_right # auto ->
            <<width, Length(underflow), margin_right>>
      [] width # auto /\ margin_left # auto /\ margin_right = auto ->
            <<width, margin_left, Length(underflow)>>
      [] width = auto ->
            LET ml == IF margin_left = auto THEN Length(0) ELSE margin_left
                mr == IF margin_right = auto THEN Length(0) ELSE margin_right
            IN  IF underflow >= 0
                THEN <<Length(underflow), ml, mr>>
                ELSE <<Length(0), ml, Length(to_px(mr) + underflow)>>
      [] width # auto /\ margin_left = auto /\ margin_right = auto ->
            <<width, Length(underflow \div 2), Length(underflow \div 2)>>

\* solve_width whose width-auto arm lets the width go negative.
solve_width_auto_negative(width, margin_left, margin_right, underflow) ==
    CASE width # auto /\ margin_left # auto /\ margin_right # auto ->
            <<width, margin_left, Length(to_px(margin_right) + underflow)>>
      [] width # auto /\ margin_left = auto /\ margin_right # auto ->
            <<width, Length(underflow), margin_right>>
      [] width # auto /\ margin_left # auto /\ margin_right = auto ->
            <<width, margin_left, Length(underflow)>>
      [] width = auto ->
            LET ml == IF margin_left = auto THEN Length(0) ELSE margin_left
                mr == IF margin_right = auto THEN Length(0) ELSE margin_right
            IN  <<Length(underflow), ml, mr>>
      [] width # auto /\ margin_left = auto /\ margin_right = auto ->
            <<width, Length(underflow \div 2), Length(underflow \div 2)>>

\* calculate_block_width, lines 292-331: the used <<width, margin_left,
\* margin_right>> from the values after the check above.
solve_width(width, margin_left, margin_right, underflow) ==
    CASE width # auto /\ margin_left # auto /\ margin_right # auto ->
            <<width, margin_left, Length(to_px(margin_right) + underflow)>>
      [] width # auto /\ margin_left = auto /\ margin_right # auto ->
            <<width, Length(underflow), margin_right>>
      [] width # auto /\ margin_left # auto /\ margin_right = auto ->
            <<width, margin_left, Length(underflow)>>
      [] width = auto ->
            LET ml == IF margin_left = auto THEN Length(0) ELSE margin_left
                mr == IF margin_right = auto THEN Length(0) ELSE margin_right
            IN  IF underflow >= 0
                THEN <<Length(underflow), ml, mr>>
                ELSE <<Length(0), ml, Length(to_px(mr) + underflow)>>
      [] width # auto /\ margin_left = auto /\ margin_right = auto ->
            <<width, Length(underflow \div 2), Length(underflow \div 2)>>

\* LayoutBox::calculate_block_width
calculate_block_width(self, containing_block) ==
    LET style == get_style_node(self)
    IN  IF IsPanic(style) THEN style ELSE
        LET w0 == value(style, "width")
            width == IF w0.tag = "Some" THEN w0.v ELSE auto
            margin_left == lookup(style, "margin-left", "margin", zero)
            margin_right == lookup(style, "margin-right", "margin", zero)
            border_left == lookup(style, "border-left-width", "border-width", zero)
            border_right == lookup(style, "border-right-width", "border-width", zero)
            padding_left == lookup(style, "padding-left", "padding", zero)
            padding_right == lookup(style, "padding-right", "padding", zero)
            total == sum(<<to_px(margin_left), to_px(margin_right),
                           to_px(border_left), to_px(border_right),
                           to_px(padding_left), to_px(padding_right),
                           to_px(width)>>)
            m == overflow_margins(width, <<margin_left, margin_right>>, total,
                                  containing_block)
            underflow == containing_block.content.width - total
            used == solve_width(width, m[1], m[2], underflow)
            d == self.dimensions
        IN  [self EXCEPT !.dimensions =
                [content |-> [d.content EXCEPT !.width = to_px(used[1])],
                 padding |-> [d.padding EXCEPT !.left = to_px(padding_left),
                                               !.right = to_px(padding_right)],
                 border  |-> [d.border EXCEPT !.left = to_px(border_left),
                                              !.right = to_px(border_right)],
                 margin  |-> [d.margin EXCEPT !.left = to_px(used[2]),
                                              !.right = to_px(used[3])]]]

\* calculate_block_position that places every box at the top of its
\* containing block, not below the boxes laid out before it.
calculate_block_position_at_top(self, containing_block) ==
    LET style == get_style_node(self)
    IN  IF IsPanic(style) THEN style ELSE
        LET d == self.dimensions
            margin == [d.margin EXCEPT
                         !.top = to_px(lookup(style, "margin-top", "margin", zero)),
                         !.bottom = to_px(lookup(style, "margin-bottom", "margin", zero))]
            border == [d.border EXCEPT
                         !.top = to_px(lookup(style, "border-top-width", "border-width", zero)),
                         !.bottom = to_px(lookup(style, "border-bottom-width", "border-width", zero))]
            padding == [d.padding EXCEPT
                         !.top = to_px(lookup(style, "padding-top", "padding", zero)),
                         !.bottom = to_px(lookup(style, "padding-bottom", "padding", zero))]
            x == containing_block.content.x + margin.left + border.left + padding.left
            y == containing_block.content.y + margin.top + border.top + padding.top
        IN  [self EXCEPT !.dimensions =
                [content |-> [d.content EXCEPT !.x = x, !.y = y],
                 padding |-> padding, border |-> border, margin |-> margin]]

\* calculate_block_position that leaves margin.left out of content.x.
calculate_block_position_x_without_margin(self, containing_block) ==
    LET style == get_style_node(self)
    IN  IF IsPanic(style) THEN style ELSE
        LET d == self.dimensions
            margin == [d.margin EXCEPT
                         !.top = to_px(lookup(style, "margin-top", "margin", zero)),
                         !.bottom = to_px(lookup(style, "margin-bottom", "margin", zero))]
            border == [d.border EXCEPT
                         !.top = to_px(lookup(style, "border-top-width", "border-width", zero)),
                         !.bottom = to_px(lookup(style, "border-bottom-width", "border-width", zero))]
            padding == [d.padding EXCEPT
                         !.top = to_px(lookup(style, "padding-top", "padding", zero)),
                         !.bottom = to_px(lookup(style, "padding-bottom", "padding", zero))]
            x == containing_block.content.x + border.left + padding.left
            y == containing_block.content.height + containing_block.content.y
                 + margin.top + border.top + padding.top
        IN  [self EXCEPT !.dimensions =
                [content |-> [d.content EXCEPT !.x = x, !.y = y],
                 padding |-> padding, border |-> border, margin |-> margin]]

\* LayoutBox::calculate_block_position
calculate_block_position(self, containing_block) ==
    LET style == get_style_node(self)
    IN  IF IsPanic(style) THEN style ELSE
        LET d == self.dimensions
            margin == [d.margin EXCEPT
                         !.top = to_px(lookup(style, "margin-top", "margin", zero)),
                         !.bottom = to_px(lookup(style, "margin-bottom", "margin", zero))]
            border == [d.border EXCEPT
                         !.top = to_px(lookup(style, "border-top-width", "border-width", zero)),
                         !.bottom = to_px(lookup(style, "border-bottom-width", "border-width", zero))]
            padding == [d.padding EXCEPT
                         !.top = to_px(lookup(style, "padding-top", "padding", zero)),
                         !.bottom = to_px(lookup(style, "padding-bottom", "padding", zero))]
            x == containing_block.content.x + margin.left + border.left + padding.left
            y == containing_block.content.height + containing_block.content.y
                 + margin.top + border.top + padding.top
        IN  [self EXCEPT !.dimensions =
                [content |-> [d.content EXCEPT !.x = x, !.y = y],
                 padding |-> padding, border |-> border, margin |-> margin]]

\* calculate_block_height that takes every specified height value for a
\* length, a keyword or colour counting as 0.
calculate_block_height_any_value(self) ==
    LET style == get_style_node(self)
    IN  IF IsPanic(style) THEN style ELSE
        LET h == value(style, "height")
        IN  IF h.tag = "Some"
            THEN [self EXCEPT !.dimensions.content.height = to_px(h.v)]
            ELSE self

\* LayoutBox::calculate_block_height
calculate_block_height(self) ==
    LET style == get_style_node(self)
    IN  IF IsPanic(style) THEN style ELSE
        LET h == value(style, "height")
        IN  IF h.tag = "Some" /\ h.v.tag = "Length"
            THEN [self EXCEPT !.dimensions.content.height = h.v.v]
            ELSE self

RECURSIVE layout(_, _)
RECURSIVE layout_block_children_from(_, _)

\* layout_block_children that adds the border-box height of a child, not its
\* margin-box height.
layout_block_children_border_box(self, i) ==
    IF i > Len(self.children) THEN self ELSE
    LET child == layout(self.children[i], self.dimensions)
    IN  IF IsPanic(child) THEN child ELSE
        layout_block_children_from(
            [self EXCEPT !.children[i] = child,
                         !.dimensions.content.height =
                             self.dimensions.content.height
                             + border_box(child.dimensions).height],
            i + 1)

\* LayoutBox::layout_block_children: the loop from child i on
layout_block_children_from(self, i) ==
    IF i > Len(self.children) THEN self ELSE
    LET child == layout(self.children[i], self.dimensions)
    IN  IF IsPanic(child) THEN child ELSE
        layout_block_children_from(
            [self EXCEPT !.children[i] = child,
                         !.dimensions.content.height =
                             self.dimensions.content.height
                             + margin_box(child.dimensions).height],
            i + 1)

\* LayoutBox::layout_block_children
layout_block_children(self) == layout_block_children_from(self, 1)

\* LayoutBox::layout_block
layout_block(self, containing_block) ==
    LET a == calculate_block_width(self, containing_block)
    IN  IF IsPanic(a) THEN a ELSE
        LET b == calculate_block_position(a, containing_block)
        IN  IF IsPanic(b) THEN b ELSE
            LET c == layout_block_children(b)
            IN  IF IsPanic(c) THEN c ELSE calculate_block_height(c)

\* layout that runs the block layout steps on an AnonymousBlock box too.
layout_anonymous_as_block(self, containing_block) ==
    CASE self.box_type.tag = "BlockNode" -> layout_block(self, containing_block)
      [] self.box_type.tag = "InlineNode" -> self
      [] self.box_type.tag = "AnonymousBlock" -> layout_block(self, containing_block)

\* layout that runs the block layout steps on an InlineNode box too.
layout_inline_as_block(self, containing_block) ==
    CASE self.box_type.tag = "BlockNode" -> layout_block(self, containing_block)
      [] self.box_type.tag = "InlineNode" -> layout_block(self, containing_block)
      [] self.box_type.tag = "AnonymousBlock" -> self

\* LayoutBox::layout
layout(self, containing_block) ==
    CASE self.box_type.tag = "BlockNode" -> layout_block(self, containing_block)
      [] self.box_type.tag = "InlineNode" -> self
      [] self.box_type.tag = "AnonymousBlock" -> self

(***************************************************************************)
(* layout.rs : building the layout tree                                    *)
(***************************************************************************)
\* get_inline_container that gives an InlineNode box an anonymous block
\* too: only an AnonymousBlock box is its own inline container.
get_inline_container_inline_wrapped(self) ==
    IF self.box_type.tag = "AnonymousBlock"
    THEN [box |-> self, at |-> 0]
    ELSE LET n == Len(self.children)
             kids == IF n > 0 /\ self.children[n].box_type.tag = "AnonymousBlock"
                     THEN self.children
                     ELSE Append(self.children, NewLayoutBox(AnonymousBlock))
         IN  [box |-> [self EXCEPT !.children = kids], at |-> Len(kids)]

\* get_inline_container that never reuses the anonymous block it has just
\* generated.
get_inline_container_always_new(self) ==
    IF self.box_type.tag \in {"InlineNode", "AnonymousBlock"}
    THEN [box |-> self, at |-> 0]
    ELSE LET kids == Append(self.children, NewLayoutBox(AnonymousBlock))
         IN  [box |-> [self EXCEPT !.children = kids], at |-> Len(kids)]

\* LayoutBox::get_inline_container.  The program returns a reference into
\* the tree; the model returns the tree after the call (box) and where the
\* reference points: at = 0 is the box itself, at = k its k-th child.
get_inline_container(self) ==
    IF self.box_type.tag \in {"InlineNode", "AnonymousBlock"}
    THEN [box |-> self, at |-> 0]
    ELSE LET n == Len(self.children)
             kids == IF n > 0 /\ self.children[n].box_type.tag = "AnonymousBlock"
                     THEN self.children
                     ELSE Append(self.children, NewLayoutBox(AnonymousBlock))
         IN  [box |-> [self EXCEPT !.children = kids], at |-> Len(kids)]

\* root.get_inline_container().children.push(child)
push_inline(root, child) ==
    LET c == get_inline_container(root)
    IN  IF c.at = 0
        THEN [c.box EXCEPT !.children = Append(@, child)]
        ELSE [c.box EXCEPT !.children[c.at].children = Append(@, child)]

RECURSIVE build_layout_tree(_)
RECURSIVE build_children_from(_, _, _)

\* The loop of build_layout_tree that gives a display:none child an inline
\* box without children instead of skipping it.
build_children_none_boxed(root, style_node, i) ==
    IF i > Len(style_node.children) THEN root ELSE
    LET child == style_node.children[i]
    IN  CASE display(child) = "Block" ->
                LET b == build_layout_tree(child)
                IN  IF IsPanic(b) THEN b
                    ELSE build_children_from(
                            [root EXCEPT !.children = Append(@, b)], style_node, i + 1)
          [] display(child) = "Inline" ->
                LET b == build_layout_tree(child)
                IN  IF IsPanic(b) THEN b
                    ELSE build_children_from(push_inline(root, b), style_node, i + 1)
          [] display(child) = "None" ->
                build_children_from(
                    push_inline(root, NewLayoutBox(InlineNode(child))),
                    style_node, i + 1)

\* build_layout_tree, lines 133-139: the loop over style_node.children from
\* child i on
build_children_from(root, style_node, i) ==
    IF i > Len(style_node.children) THEN root ELSE
    LET child == style_node.children[i]
    IN  CASE display(child) = "Block" ->
                LET b == build_layout_tree(child)
                IN  IF IsPanic(b) THEN b
                    ELSE build_children_from(
                            [root EXCEPT !.children = Append(@, b)], style_node, i + 1)
          [] display(child) = "Inline" ->
                LET b == build_layout_tree(child)
                IN  IF IsPanic(b) THEN b
                    ELSE build_children_from(push_inline(root, b), style_node, i + 1)
          [] display(child) = "None" ->
                build_children_from(root, style_node, i + 1)

\* build_layout_tree that gives a display:none root an inline box.
build_layout_tree_none_as_inline(style_node) ==
    CASE display(style_node) = "Block" ->
            build_children_from(NewLayoutBox(BlockNode(style_node)), style_node, 1)
      [] OTHER ->
            build_children_from(NewLayoutBox(InlineNode(style_node)), style_node, 1)

\* build_layout_tree
build_layout_tree(style_node) ==
    CASE display(style_node) = "Block" ->
            build_children_from(NewLayoutBox(BlockNode(style_node)), style_node, 1)
      [] display(style_node) = "Inline" ->
            build_children_from(NewLayoutBox(InlineNode(style_node)), style_node, 1)
      [] display(style_node) = "None" ->
            Panic("Root node has display: none.")

\* layout_tree that leaves the height of the containing block as the caller
\* passed it.
layout_tree_height_kept(node, containing_block) ==
    LET root_ == build_layout_tree(node)
    IN  IF IsPanic(root_) THEN root_ ELSE layout(root_, containing_block)

\* layout_tree
layout_tree(node, containing_block) ==
    LET cb == [containing_block EXCEPT !.content.height = 0]
        root_ == build_layout_tree(node)
    IN  IF IsPanic(root_) THEN root_ ELSE layout(root_, cb)

(***************************************************************************)
(* dom.rs : ElementData                                                    *)
(***************************************************************************)
\* struct ElementData { tag_name, attributes }; attributes is a function
\* from the attribute names present to their values.
ElementData(tag_name, attributes) ==
    [tag_name |-> tag_name, attributes |-> attributes]

\* enum NodeType { Text(String), Element(ElementData) }
Text(data) == [tag |-> "Text", data |-> data]
Element(elem) == [tag |-> "Element", elem |-> elem]

\* struct Node { children, node_type }
Node(children, node_type) == [children |-> children, node_type |-> node_type]

\* dom::text
text(data) == Node(<<>>, Text(data))

\* dom::element
element_node(name, attrs, children) ==
    Node(children, Element(ElementData(name, attrs)))

\* HashMap::get
get(map, key) == IF key \in DOMAIN map THEN Some(map[key]) ELSE None

\* ElementData::id
id(elem) == get(elem.attributes, "id")

RECURSIVE split(_, _)
\* str::split(sep): the pieces of str between the occurrences of the one
\* character sep; n occurrences give n + 1 pieces, empty ones included.
split(str, sep) ==
    IF \A i \in DOMAIN str : str[i] # sep THEN <<str>>
    ELSE LET at == CHOOSE i \in DOMAIN str :
                      str[i] = sep /\ \A j \in 1..(i - 1) : str[j] # sep
         IN  <<SubSeq(str, 1, at - 1)>> \o split(SubSeq(str, at + 1, Len(str)), sep)

\* the HashSet an iterator is collected into
collect(seq) == {seq[i] : i \in DOMAIN seq}

\* ElementData::classes
classes(elem) ==
    LET class_list == get(elem.attributes, "class")
    IN  IF class_list.tag = "Some" THEN collect(split(class_list.v, " ")) ELSE {}

(***************************************************************************)
(* css.rs : Selector, Specificity, Rule, Declaration                       *)
(***************************************************************************)
\* struct SimpleSelector { tag_name, id, class } inside Selector::Simple
SimpleSelector(tag_name, id_, class) ==
    [tag_name |-> tag_name, id |-> id_, class |-> class]

\* struct Declaration { name, value }; the value is the css::Value that
\* specified_values inserts into the PropertyMap
Declaration(name, val) == [name |-> name, value |-> val]

\* struct Rule { selectors, declarations }
Rule(sels, declarations) == [selectors |-> sels, declarations |-> declarations]

\* Option::iter().count()
count(opt) == IF opt.tag = "Some" THEN 1 ELSE 0

\* specificity that counts the classes before the ids.
specificity_classes_first(selector) ==
    LET a == count(selector.id)
        b == Len(selector.class)
        c == count(selector.tag_name)
    IN  <<b, a, c>>

\* Selector::specificity
specificity(selector) ==
    LET a == count(selector.id)
        b == Len(selector.class)
        c == count(selector.tag_name)
    IN  <<a, b, c>>

\* Ord::cmp of two Specificity tuples: the order of the first component
\* that differs
cmp(a, b) ==
    CASE a[1] # b[1] -> IF a[1] < b[1] THEN "Less" ELSE "Greater"
      [] a[1] = b[1] /\ a[2] # b[2] -> IF a[2] < b[2] THEN "Less" ELSE "Greater"
      [] a[1] = b[1] /\ a[2] = b[2] /\ a[3] # b[3] ->
            IF a[3] < b[3] THEN "Less" ELSE "Greater"
      [] OTHER -> "Equal"

\* The place of x in a sequence sorted by a stable sort: behind every
\* element that does not compare Greater than x.  after[i] tells whether
\* sorted[i] compares Greater than x.
insert_stable(sorted, x, after) ==
    LET n == Cardinality({i \in DOMAIN sorted : ~after[i]})
    IN  SubSeq(sorted, 1, n) \o <<x>> \o SubSeq(sorted, n + 1, Len(sorted))

RECURSIVE sort_selectors(_)
\* parse_selectors, line 171:
\* selectors.sort_by(|a, b| b.specificity().cmp(&a.specificity()))
sort_selectors(sels) ==
    IF sels = <<>> THEN <<>>
    ELSE LET n == Len(sels)
             sorted == sort_selectors(SubSeq(sels, 1, n - 1))
             x == sels[n]
         IN  insert_stable(sorted, x,
                [i \in DOMAIN sorted |->
                    cmp(specificity(x), specificity(sorted[i])) = "Greater"])

(***************************************************************************)
(* style.rs : selector matching and the cascade                            *)
(***************************************************************************)
\* matches_simple_selector that checks a selector's id only against an
\* element that has an id.
matches_simple_selector_id_if_present(elem, selector) ==
    IF selector.tag_name.tag = "Some" /\ elem.tag_name # selector.tag_name.v
    THEN FALSE
    ELSE IF selector.id.tag = "Some" /\ id(elem).tag = "Some"
            /\ id(elem) # Some(selector.id.v)
    THEN FALSE
    ELSE IF \E i \in DOMAIN selector.class : selector.class[i] \notin classes(elem)
    THEN FALSE
    ELSE TRUE

\* matches_simple_selector
matches_simple_selector(elem, selector) ==
    IF selector.tag_name.tag = "Some" /\ elem.tag_name # selector.tag_name.v
    THEN FALSE
    ELSE IF selector.id.tag = "Some" /\ id(elem) # Some(selector.id.v)
    THEN FALSE
    ELSE IF \E i \in DOMAIN selector.class : selector.class[i] \notin classes(elem)
    THEN FALSE
    ELSE TRUE

\* matches
matches(elem, selector) == matches_simple_selector(elem, selector)

\* match_rule that takes the last matching selector of the rule.
match_rule_last_matching(elem, rule) ==
    LET found == {i \in DOMAIN rule.selectors : matches(elem, rule.selectors[i])}
    IN  IF found = {} THEN None
        ELSE LET last == CHOOSE i \in found : \A j \in found : i >= j
             IN  Some(<<specificity(rule.selectors[last]), rule>>)

\* match_rule
match_rule(elem, rule) ==
    LET found == {i \in DOMAIN rule.selectors : matches(elem, rule.selectors[i])}
    IN  IF found = {} THEN None
        ELSE LET first == CHOOSE i \in found : \A j \in found : i <= j
             IN  Some(<<specificity(rule.selectors[first]), rule>>)

RECURSIVE matching_rules_from(_, _, _)
\* matching_rules: the filter_map over stylesheet.rules from rule i on
matching_rules_from(elem, stylesheet, i) ==
    IF i > Len(stylesheet.rules) THEN <<>>
    ELSE LET m == match_rule(elem, stylesheet.rules[i])
         IN  (IF m.tag = "Some" THEN <<m.v>> ELSE <<>>)
             \o matching_rules_from(elem, stylesheet, i + 1)

\* matching_rules
matching_rules(elem, stylesheet) == matching_rules_from(elem, stylesheet, 1)

RECURSIVE sort_rules(_)
\* sort_rules with the comparison turned round: highest specificity first.
sort_rules_descending(rules) ==
    IF rules = <<>> THEN <<>>
    ELSE LET n == Len(rules)
             sorted == sort_rules(SubSeq(rules, 1, n - 1))
             x == rules[n]
         IN  insert_stable(sorted, x,
                [i \in DOMAIN sorted |-> cmp(sorted[i][1], x[1]) = "Less"])

\* sort_rules by a sort that is not stable: among rules of equal
\* specificity the later one comes first.
sort_rules_ties_reversed(rules) ==
    IF rules = <<>> THEN <<>>
    ELSE LET n == Len(rules)
             sorted == sort_rules(SubSeq(rules, 1, n - 1))
             x == rules[n]
         IN  insert_stable(sorted, x,
                [i \in DOMAIN sorted |-> cmp(sorted[i][1], x[1]) # "Less"])

\* specified_values, line 151: rules.sort_by(|&(a, _), &(b, _)| a.cmp(&b))
sort_rules(rules) ==
    IF rules = <<>> THEN <<>>
    ELSE LET n == Len(rules)
             sorted == sort_rules(SubSeq(rules, 1, n - 1))
             x == rules[n]
         IN  insert_stable(sorted, x,
                [i \in DOMAIN sorted |-> cmp(sorted[i][1], x[1]) = "Greater"])

RECURSIVE insert_declarations(_, _)
\* specified_values, lines 153-155: values.insert(name, value) for every
\* declaration of a rule, a later insert replacing an earlier one
insert_declarations(vals, declarations) ==
    IF declarations = <<>> THEN vals
    ELSE LET d == declarations[1]
         IN  insert_declarations(
                [n \in DOMAIN vals \cup {d.name} |->
                    IF n = d.name THEN d.value ELSE vals[n]],
                Tail(declarations))

RECURSIVE apply_rules(_, _)
\* specified_values, lines 152-156: the loop over the sorted rules
apply_rules(vals, rules) ==
    IF rules = <<>> THEN vals
    ELSE apply_rules(insert_declarations(vals, rules[1][2].declarations), Tail(rules))

\* specified_values
specified_values(elem, stylesheet) ==
    apply_rules([n \in {} |-> auto], sort_rules(matching_rules(elem, stylesheet)))

RECURSIVE style_tree(_, _)

\* style_tree that runs selector matching on text nodes too, as on an
\* element without tag name or attributes.
style_tree_text_matched(root, stylesheet) ==
    [node |-> root,
     specified_values |->
        IF root.node_type.tag = "Element"
        THEN specified_values(root.node_type.elem, stylesheet)
        ELSE specified_values(ElementData(<<>>, [n \in {} |-> <<>>]), stylesheet),
     children |-> [i \in DOMAIN root.children |->
                      style_tree(root.children[i], stylesheet)]]

\* style_tree.  The StyledNode it returns carries the node field, holding
\* the Node it was made for (the program stores a reference to it).
style_tree(root, stylesheet) ==
    [node |-> root,
     specified_values |->
        IF root.node_type.tag = "Element"
        THEN specified_values(root.node_type.elem, stylesheet)
        ELSE [n \in {} |-> auto],
     children |-> [i \in DOMAIN root.children |->
                      style_tree(root.children[i], stylesheet)]]

(***************************************************************************)
(* Inputs                                                                  *)
(***************************************************************************)
\* Largest specified length, in whole pixels.
MaxPx == 2

\* Largest content width of a containing block, in whole pixels.
MaxWidth == 4

\* S with "the property is not specified".
Opt(S) == {None} \cup {Some(x) : x \in S}

\* The PropertyMap holding exactly the properties f gives a value.
PropertyMapOf(f) ==
    [n \in {m \in DOMAIN f : f[m].tag = "Some"} |-> f[n].v]

Lengths == {Px(n) : n \in 0..MaxPx}

\* A containing block of content width w px, at the origin, of height 0.
ContainerOfWidth(w) == [DefaultDimensions EXCEPT !.content.width = 2 * w]

(***************************************************************************)
(* SpecWidth: calculate_block_width on one block box, for every            *)
(* combination of the horizontal properties and every container width.     *)
(***************************************************************************)
InitWidth ==
    \E w \in Opt(Lengths \cup {auto, Keyword("inherit")}),
       ml \in Opt(Lengths \cup {auto}),
       mr \in Opt(Lengths \cup {auto}),
       m \in Opt({auto, Px(1)}),
       bl \in Opt({Px(1)}), br \in Opt({Px(MaxPx)}), bw \in Opt({Px(1)}),
       pl \in Opt({Px(MaxPx)}), pr \in Opt({Px(1)}), pw \in Opt({Px(1)}),
       cw \in 0..MaxWidth :
        /\ style_root = StyledNode(
              PropertyMapOf(
                 [n \in {"display", "width", "margin-left", "margin-right", "margin",
                         "border-left-width", "border-right-width", "border-width",
                         "padding-left", "padding-right", "padding"} |->
                    CASE n = "display" -> Some(Keyword("block"))
                      [] n = "width" -> w
                      [] n = "margin-left" -> ml
                      [] n = "margin-right" -> mr
                      [] n = "margin" -> m
                      [] n = "border-left-width" -> bl
                      [] n = "border-right-width" -> br
                      [] n = "border-width" -> bw
                      [] n = "padding-left" -> pl
                      [] n = "padding-right" -> pr
                      [] n = "padding" -> pw]),
              <<>>)
        /\ initial_containing_block = ContainerOfWidth(cw)
        /\ local_containing_block = Unused
        /\ root_box = NewLayoutBox(BlockNode(style_root))
        /\ pc = "width"
        /\ returned = Unused
        /\ StyleUnused

\* self.calculate_block_width(containing_block), the first step of layout_block
CalculateBlockWidth ==
    /\ pc = "width"
    /\ root_box' = calculate_block_width(root_box, initial_containing_block)
    /\ pc' = "width_done"
    /\ UNCHANGED <<style_root, initial_containing_block, local_containing_block,
                   returned, style_vars>>

NextWidth == CalculateBlockWidth

SpecWidth == InitWidth /\ [][NextWidth]_vars

\* The specified values the width solve starts from.
SpecifiedWidth ==
    LET w == value(style_root, "width") IN IF w.tag = "Some" THEN w.v ELSE auto

SpecifiedMarginLeft == lookup(style_root, "margin-left", "margin", zero)

SpecifiedMarginRight == lookup(style_root, "margin-right", "margin", zero)

\* The seven horizontal quantities with auto counted as 0.
SpecifiedTotal ==
    to_px(SpecifiedWidth) + to_px(SpecifiedMarginLeft) + to_px(SpecifiedMarginRight)
    + to_px(lookup(style_root, "border-left-width", "border-width", zero))
    + to_px(lookup(style_root, "border-right-width", "border-width", zero))
    + to_px(lookup(style_root, "padding-left", "padding", zero))
    + to_px(lookup(style_root, "padding-right", "padding", zero))

\* The horizontal extent of the used values of a box.
UsedTotal(d) ==
    d.margin.left + d.border.left + d.padding.left + d.content.width
    + d.padding.right + d.border.right + d.margin.right

\* C1: after calculate_block_width, when the specified width is auto or
\* exactly one of margin-left / margin-right is auto, the used margins,
\* borders, paddings and width add up to the containing block's content
\* width, also when the specified sum exceeds the container.
C1_WidthTotalsContainer ==
    (/\ pc = "width_done"
     /\ \/ SpecifiedWidth = auto
        \/ (SpecifiedMarginLeft = auto) # (SpecifiedMarginRight = auto))
    => UsedTotal(root_box.dimensions) = initial_containing_block.content.width

\* C1 witness: a solved box of fixed width with margin-left alone auto whose
\* specified sum exceeds the container.
C1_Witness ==
    /\ pc = "width_done"
    /\ SpecifiedWidth.tag = "Length"
    /\ SpecifiedMarginLeft = auto /\ SpecifiedMarginRight # auto
    /\ SpecifiedTotal > initial_containing_block.content.width
    /\ root_box.dimensions.margin.right < 0

\* containing width - the seven horizontal quantities with auto counted as 0
SpecifiedUnderflow == initial_containing_block.content.width - SpecifiedTotal

\* The width is not auto and exactly one of margin-left, margin-right is.
OneMarginAuto ==
    /\ SpecifiedWidth # auto
    /\ (SpecifiedMarginLeft = auto) # (SpecifiedMarginRight = auto)

\* C20 as claimed: when the width is not auto and exactly one of
\* margin-left / margin-right is auto, the used value of that margin is
\* underflow and the used value of the other is its specified value,
\* whatever the container width.
C20_Original ==
    (pc = "width_done" /\ OneMarginAuto) =>
        LET d == root_box.dimensions
        IN  IF SpecifiedMarginLeft = auto
            THEN /\ d.margin.left = SpecifiedUnderflow
                 /\ d.margin.right = to_px(SpecifiedMarginRight)
            ELSE /\ d.margin.right = SpecifiedUnderflow
                 /\ d.margin.left = to_px(SpecifiedMarginLeft)

\* C20 amended: when the width is not auto and exactly one of margin-left /
\* margin-right is auto, then, if the sum fits the container (underflow >=
\* 0), the auto margin's used value is underflow and the other margin keeps
\* its specified value; if the sum exceeds the container (underflow < 0),
\* the auto margin is first set to 0 and the whole negative underflow goes
\* into margin-right: an auto margin-right still ends at underflow with
\* margin-left kept, but an auto margin-left ends at 0 and margin-right at
\* its specified value + underflow.
C20_AutoMarginAbsorbsUnderflow ==
    (pc = "width_done" /\ OneMarginAuto) =>
        LET d == root_box.dimensions
        IN  CASE SpecifiedMarginRight = auto ->
                    /\ d.margin.right = SpecifiedUnderflow
                    /\ d.margin.left = to_px(SpecifiedMarginLeft)
              [] SpecifiedMarginLeft = auto /\ SpecifiedUnderflow >= 0 ->
                    /\ d.margin.left = SpecifiedUnderflow
                    /\ d.margin.right = to_px(SpecifiedMarginRight)
              [] SpecifiedMarginLeft = auto /\ SpecifiedUnderflow < 0 ->
                    /\ d.margin.left = 0
                    /\ d.margin.right =
                          to_px(SpecifiedMarginRight) + SpecifiedUnderflow

\* C20 witness: a solved box of fixed width, margin-left auto and
\* margin-right 1px that is wider than its container: margin.left is 0 and
\* margin.right is 1px + underflow.
C20_Witness ==
    /\ pc = "width_done"
    /\ OneMarginAuto
    /\ SpecifiedMarginLeft = auto /\ SpecifiedMarginRight = Px(1)
    /\ SpecifiedUnderflow < 0
    /\ root_box.dimensions.margin.left = 0
    /\ root_box.dimensions.margin.right = 2 + SpecifiedUnderflow

\* C21 as claimed: when the width is not auto and the sum exceeds the
\* container, every margin specified as auto has used value 0.
C21_Original ==
    (pc = "width_done" /\ SpecifiedWidth # auto /\ SpecifiedUnderflow < 0) =>
        /\ SpecifiedMarginLeft = auto => root_box.dimensions.margin.left = 0
        /\ SpecifiedMarginRight = auto => root_box.dimensions.margin.right = 0

\* C21 amended: when the width is not auto and the sum exceeds the
\* container, an auto margin-left has used value 0; an auto margin-right is
\* set to 0 before the solve, which then adds the negative underflow to it,
\* so its used value is underflow, not 0.
C21_AutoMarginsOnOverflow ==
    (pc = "width_done" /\ SpecifiedWidth # auto /\ SpecifiedUnderflow < 0) =>
        /\ SpecifiedMarginLeft = auto => root_box.dimensions.margin.left = 0
        /\ SpecifiedMarginRight = auto =>
              root_box.dimensions.margin.right = SpecifiedUnderflow

\* C21 witness: a solved box of fixed width wider than its container whose
\* margins were both auto: margin.left is 0, margin.right is the negative
\* underflow.
C21_Witness ==
    /\ pc = "width_done"
    /\ SpecifiedWidth.tag = "Length"
    /\ SpecifiedMarginLeft = auto /\ SpecifiedMarginRight = auto
    /\ "margin" \notin DOMAIN style_root.specified_values
    /\ SpecifiedUnderflow < 0
    /\ root_box.dimensions.margin.left = 0
    /\ root_box.dimensions.margin.right = SpecifiedUnderflow

\* The width is not auto and both margin-left and margin-right are.
BothMarginsAuto ==
    /\ SpecifiedWidth # auto
    /\ SpecifiedMarginLeft = auto /\ SpecifiedMarginRight = auto

\* C22 as claimed: when the width is not auto and both margins are auto,
\* the used margins are equal, each half the underflow, whatever the
\* container width.
C22_Original ==
    (pc = "width_done" /\ BothMarginsAuto) =>
        /\ root_box.dimensions.margin.left = root_box.dimensions.margin.right
        /\ 2 * root_box.dimensions.margin.left = SpecifiedUnderflow

\* C22 amended: when the width is not auto and both margins are auto, then,
\* if the sum fits the container (underflow >= 0), the used margins are
\* equal, each half the underflow; if the sum exceeds the container, both
\* are set to 0 first and the underflow goes into margin-right: margin.left
\* is 0 and margin.right is underflow.
C22_BothAutoSplitUnderflow ==
    (pc = "width_done" /\ BothMarginsAuto) =>
        LET d == root_box.dimensions
        IN  IF SpecifiedUnderflow >= 0
            THEN /\ d.margin.left = d.margin.right
                 /\ 2 * d.margin.left = SpecifiedUnderflow
            ELSE /\ d.margin.left = 0
                 /\ d.margin.right = SpecifiedUnderflow

\* C22 witness: a solved box of fixed width with both margins auto, through
\* the margin shorthand, and borders and paddings, centred in a container
\* with room to spare.
C22_Witness ==
    /\ pc = "width_done"
    /\ BothMarginsAuto
    /\ "margin" \in DOMAIN style_root.specified_values
    /\ SpecifiedUnderflow > 0
    /\ root_box.dimensions.border.left > 0
    /\ root_box.dimensions.padding.right > 0
    /\ root_box.dimensions.margin.left > 0
    /\ root_box.dimensions.margin.left = root_box.dimensions.margin.right

\* C23: when none of width, margin-left, margin-right is auto, the used
\* width, margin.left, borders and paddings are the pixel values of the
\* specified ones and margin.right is the specified margin-right plus
\* underflow.
C23_NoneAutoRightAbsorbs ==
    (/\ pc = "width_done"
     /\ SpecifiedWidth # auto
     /\ SpecifiedMarginLeft # auto /\ SpecifiedMarginRight # auto) =>
        LET d == root_box.dimensions
        IN  /\ d.content.width = to_px(SpecifiedWidth)
            /\ d.margin.left = to_px(SpecifiedMarginLeft)
            /\ d.margin.right = to_px(SpecifiedMarginRight) + SpecifiedUnderflow
            /\ d.border.left =
                  to_px(lookup(style_root, "border-left-width", "border-width", zero))
            /\ d.border.right =
                  to_px(lookup(style_root, "border-right-width", "border-width", zero))
            /\ d.padding.left =
                  to_px(lookup(style_root, "padding-left", "padding", zero))
            /\ d.padding.right =
                  to_px(lookup(style_root, "padding-right", "padding", zero))

\* C23 witness: a solved box with width, margin-left and margin-right all
\* lengths that overflows its container: margin.right has gone negative.
C23_Witness ==
    /\ pc = "width_done"
    /\ SpecifiedWidth.tag = "Length"
    /\ SpecifiedMarginLeft = Px(1) /\ SpecifiedMarginRight = Px(1)
    /\ SpecifiedUnderflow < 0
    /\ root_box.dimensions.margin.left = 2
    /\ root_box.dimensions.margin.right = 2 + SpecifiedUnderflow
    /\ root_box.dimensions.margin.right < 0

\* The value of a margin after auto has been replaced by 0.
AutoAsZero(m) == IF m = auto THEN 0 ELSE to_px(m)

\* C24: when the width is auto, an auto margin-left gets used value 0 and a
\* margin-left that is not auto keeps its value; if underflow >= 0 then
\* content.width is underflow and margin.right is its value after auto-to-0;
\* if underflow < 0 then content.width is 0 and margin.right is that value
\* plus underflow.  So content.width is never negative.
C24_WidthAutoAbsorbs ==
    (pc = "width_done" /\ SpecifiedWidth = auto) =>
        LET d == root_box.dimensions
        IN  /\ d.margin.left = AutoAsZero(SpecifiedMarginLeft)
            /\ d.content.width >= 0
            /\ IF SpecifiedUnderflow >= 0
               THEN /\ d.content.width = SpecifiedUnderflow
                    /\ d.margin.right = AutoAsZero(SpecifiedMarginRight)
               ELSE /\ d.content.width = 0
                    /\ d.margin.right =
                          AutoAsZero(SpecifiedMarginRight) + SpecifiedUnderflow

\* C24 witness: a solved box of width auto with margin-left auto whose
\* borders, paddings and margin-right alone exceed the container: the width
\* is 0 and margin.right has taken the negative underflow.
C24_Witness ==
    /\ pc = "width_done"
    /\ SpecifiedWidth = auto
    /\ SpecifiedMarginLeft = auto /\ SpecifiedMarginRight = Px(1)
    /\ SpecifiedUnderflow < 0
    /\ root_box.dimensions.content.width = 0
    /\ root_box.dimensions.margin.left = 0
    /\ root_box.dimensions.margin.right = 2 + SpecifiedUnderflow

(***************************************************************************)
(* SpecLayout: layout_tree on every style tree of at most MaxNodes nodes.  *)
(***************************************************************************)
\* Largest number of nodes of a style tree.
MaxNodes == 4

\* The specified values a node of the style tree may carry.
NodeStyles ==
    { [n \in {"display"} |-> Keyword("block")],
      ("display" :> Keyword("block")) @@ ("height" :> Px(MaxPx))
           @@ ("margin" :> Px(1)) @@ ("padding-top" :> Px(1)),
      ("display" :> Keyword("block")) @@ ("width" :> Px(MaxPx + 1))
           @@ ("border-width" :> Px(1)) @@ ("margin-left" :> auto),
      [n \in {} |-> auto],
      [n \in {"display"} |-> Keyword("none")] }

RECURSIVE TreesOfSize(_)
RECURSIVE ForestsOfSize(_)

\* The style trees of exactly n nodes.
TreesOfSize(n) ==
    {StyledNode(sv, f) : sv \in NodeStyles, f \in ForestsOfSize(n - 1)}

\* The sequences of style trees of m nodes in all.
ForestsOfSize(m) ==
    IF m = 0 THEN {<<>>}
    ELSE UNION {{<<t>> \o f : t \in TreesOfSize(k), f \in ForestsOfSize(m - k)} :
                k \in 1..m}

\* The style trees of at most max nodes.
StyleTrees(max) == UNION {TreesOfSize(n) : n \in 1..max}

\* The containing blocks a caller passes: main.rs passes a non-zero height.
InitialContainingBlocks ==
    {[DefaultDimensions EXCEPT !.content = Rect(2, 2, 2 * MaxWidth, h)] :
        h \in {0, 2 * MaxWidth}}

InitLayout ==
    /\ style_root \in StyleTrees(MaxNodes)
    /\ initial_containing_block \in InitialContainingBlocks
    /\ local_containing_block = initial_containing_block
    /\ root_box = None
    /\ pc = "layout_tree"
    /\ returned = Unused
    /\ StyleUnused

\* layout_tree, line 114: containing_block.content.height = 0.0
ResetHeight ==
    /\ pc = "layout_tree"
    /\ local_containing_block' =
          [local_containing_block EXCEPT !.content.height = 0]
    /\ pc' = "build"
    /\ UNCHANGED <<style_root, initial_containing_block, root_box, returned,
                   style_vars>>

\* layout_tree, line 116: let mut root_box = build_layout_tree(node)
BuildLayoutTree ==
    /\ pc = "build"
    /\ root_box' = build_layout_tree(style_root)
    /\ pc' = IF IsPanic(root_box') THEN "panicked" ELSE "layout"
    /\ UNCHANGED <<style_root, initial_containing_block, local_containing_block,
                   returned, style_vars>>

\* layout_tree, lines 117-119: root_box.layout(containing_block); root_box
LayoutRoot ==
    /\ pc = "layout"
    /\ root_box' = layout(root_box, local_containing_block)
    /\ pc' = IF IsPanic(root_box') THEN "panicked" ELSE "returned"
    /\ UNCHANGED <<style_root, initial_containing_block, local_containing_block,
                   returned, style_vars>>

NextLayout == ResetHeight \/ BuildLayoutTree \/ LayoutRoot

SpecLayout == InitLayout /\ [][NextLayout]_vars

(***************************************************************************)
(* Claims about layout_tree                                                *)
(***************************************************************************)
RECURSIVE Boxes(_)
\* Every box of a layout tree.
Boxes(b) == {b} \cup UNION {Boxes(b.children[i]) : i \in DOMAIN b.children}

RECURSIVE LaidOutBlocks(_)
\* The boxes of a layout tree that layout_block runs on: layout descends
\* from the root through BlockNode boxes only.
LaidOutBlocks(b) ==
    IF b.box_type.tag = "BlockNode"
    THEN {b} \cup UNION {LaidOutBlocks(b.children[i]) : i \in DOMAIN b.children}
    ELSE {}

\* layout_tree has built a tree (it may or may not have laid it out yet).
Built == pc \in {"layout", "returned"}

BlockLike(b) == b.box_type.tag \in {"BlockNode", "AnonymousBlock"}

InlineLike(b) == b.box_type.tag = "InlineNode"

\* The sum of the margin-box heights of the first n children of b.
RECURSIVE HeightOfFirst(_, _)
HeightOfFirst(b, n) ==
    IF n = 0 THEN 0
    ELSE HeightOfFirst(b, n - 1) + margin_box(b.children[n].dimensions).height

\* Child k of b lies below the earlier children of b, inside b's content box.
StackedAt(b, k) ==
    LET c == b.children[k].dimensions
    IN  c.content.y = b.dimensions.content.y + HeightOfFirst(b, k - 1)
                      + c.margin.top + c.border.top + c.padding.top

\* C2 as claimed: every child of a laid-out block box, block or anonymous,
\* has content.y = the parent's content.y + the margin-box heights of the
\* children before it + its own margin.top + border.top + padding.top.
C2_Original ==
    pc = "returned" =>
        \A b \in LaidOutBlocks(root_box) :
            \A k \in DOMAIN b.children : StackedAt(b, k)

\* C2 amended: the stacking equation holds for every child that is a
\* BlockNode box, the sum running over all earlier children; an
\* AnonymousBlock child is never positioned and keeps all-zero dimensions,
\* so it adds 0 to the sum.
C2_BlockChildrenStacked ==
    pc = "returned" =>
        \A b \in LaidOutBlocks(root_box) :
            \A k \in DOMAIN b.children :
                IF b.children[k].box_type.tag = "BlockNode"
                THEN StackedAt(b, k)
                ELSE b.children[k].dimensions = DefaultDimensions

\* C2 witness: a laid-out block whose second child is a block lying below a
\* first child of non-zero margin-box height.
C2_Witness ==
    /\ pc = "returned"
    /\ \E b \in LaidOutBlocks(root_box) :
          /\ Len(b.children) >= 2
          /\ b.children[2].box_type.tag = "BlockNode"
          /\ HeightOfFirst(b, 1) > 0
          /\ b.children[2].dimensions.content.y
                > b.children[1].dimensions.content.y

\* C3 as claimed: in a built layout tree the direct children of every box
\* are all block-like or all inline-like.
C3_ChildrenNeverMixed ==
    Built =>
        \A b \in Boxes(root_box) :
            \/ \A i \in DOMAIN b.children : BlockLike(b.children[i])
            \/ \A i \in DOMAIN b.children : InlineLike(b.children[i])

\* The children of a style node that generate a box, in order.
Visible(style_node) ==
    SelectSeq(style_node.children, LAMBDA c : display(c) # "None")

RECURSIVE Flatten(_)
\* The children of a block box with every AnonymousBlock replaced by its
\* own children.
Flatten(kids) ==
    IF kids = <<>> THEN <<>>
    ELSE (IF kids[1].box_type.tag = "AnonymousBlock"
          THEN kids[1].children ELSE <<kids[1]>>) \o Flatten(Tail(kids))

\* The box generated for a style node, whatever its children.
BoxFor(b, style_node) ==
    b.box_type = IF display(style_node) = "Block"
                 THEN BlockNode(style_node) ELSE InlineNode(style_node)

\* C4: the children of a BlockNode box are, in order, the boxes of the
\* block-display style children and one AnonymousBlock per maximal run of
\* inline-display style children (display:none children skipped), each
\* holding the boxes of its run in order: un-wrapping the anonymous boxes
\* gives one box per visible style child in order, direct children are
\* BlockNode or AnonymousBlock, an AnonymousBlock holds only InlineNode
\* boxes and at least one, and no two AnonymousBlocks are adjacent.
C4_AnonymousBlockPerInlineRun ==
    Built =>
        \A b \in Boxes(root_box) :
            b.box_type.tag = "BlockNode" =>
                LET vis == Visible(b.box_type.node)
                    flat == Flatten(b.children)
                IN  /\ Len(flat) = Len(vis)
                    /\ \A i \in DOMAIN vis : BoxFor(flat[i], vis[i])
                    /\ \A i \in DOMAIN b.children :
                          LET c == b.children[i]
                          IN  IF c.box_type.tag = "AnonymousBlock"
                              THEN /\ c.children # <<>>
                                   /\ \A j \in DOMAIN c.children :
                                         InlineLike(c.children[j])
                                   /\ i > 1 =>
                                         b.children[i - 1].box_type.tag
                                            # "AnonymousBlock"
                              ELSE c.box_type.tag = "BlockNode"

\* C4 witness: a block whose style children are one inline then one block
\* has exactly two children, an AnonymousBlock holding the inline box and
\* then the block.
C4_Witness ==
    /\ Built
    /\ root_box.box_type.tag = "BlockNode"
    /\ Len(style_root.children) = 2
    /\ display(style_root.children[1]) = "Inline"
    /\ display(style_root.children[2]) = "Block"
    /\ Len(root_box.children) = 2
    /\ root_box.children[1].box_type.tag = "AnonymousBlock"
    /\ Len(root_box.children[1].children) = 1
    /\ root_box.children[2].box_type.tag = "BlockNode"

\* C10: when the root style node's display is none, layout_tree ends in the
\* panic of build_layout_tree and returns no layout tree; when it is block
\* or inline that panic never happens.
C10_RootDisplayNoneIsFatal ==
    pc \in {"layout", "returned", "panicked"} =>
        IF display(style_root) = "None"
        THEN pc = "panicked" /\ root_box = Panic("Root node has display: none.")
        ELSE root_box # Panic("Root node has display: none.")

\* C10 witness: a display:none root with a block child has made layout_tree
\* panic.
C10_Witness ==
    /\ pc = "panicked"
    /\ display(style_root) = "None"
    /\ \E i \in DOMAIN style_root.children :
          display(style_root.children[i]) = "Block"

\* C11: for every style tree whose root's display is not none, layout_tree
\* never panics: it is at one of its three steps (reset, build, layout), each
\* a recursion over the finite tree that is taken once, or it has returned a
\* layout tree.  For every style tree whatever, the panic of get_style_node
\* on an AnonymousBlock box never happens.
C11_AnonymousStyleNeverRequested ==
    /\ root_box # Panic("Anonymous block box has no style node")
    /\ display(style_root) # "None" =>
          /\ pc \in {"layout_tree", "build", "layout", "returned"}
          /\ pc \in {"layout", "returned"} => ~IsPanic(root_box)

\* C11 witness: layout_tree has returned a tree whose laid-out root block
\* has an AnonymousBlock child and a block child after it.
C11_Witness ==
    /\ pc = "returned"
    /\ root_box.box_type.tag = "BlockNode"
    /\ \E i \in DOMAIN root_box.children :
          /\ root_box.children[i].box_type.tag = "AnonymousBlock"
          /\ i < Len(root_box.children)
          /\ root_box.children[i + 1].box_type.tag = "BlockNode"

\* Every padding, border and margin of d is zero.
ZeroEdges(d) ==
    /\ d.padding = EdgeSizes(0, 0, 0, 0)
    /\ d.border = EdgeSizes(0, 0, 0, 0)
    /\ d.margin = EdgeSizes(0, 0, 0, 0)

\* The box's width property is auto (unset counts as auto).
WidthAuto(b) ==
    LET w == value(b.box_type.node, "width")
    IN  w.tag = "None" \/ w.v = auto

\* Block box b sits in the containing block cb as claimed; first says that b
\* is the first box laid out in cb.
PlacedIn(b, cb, first) ==
    LET d == b.dimensions
    IN  /\ d.content.x = cb.content.x + d.margin.left + d.border.left
                         + d.padding.left
        /\ (WidthAuto(b) /\ ZeroEdges(d)) =>
              /\ d.content.width = cb.content.width
              /\ d.content.x = cb.content.x
              /\ first => d.content.y = cb.content.y

\* C14: every laid-out block box has content.x = the containing block's
\* content.x + its own margin.left + border.left + padding.left; a block of
\* width auto whose margins, borders and paddings are all zero gets the
\* containing block's content width and content.x, and as the first box of
\* the containing block its content.y.  The containing block of the root is
\* the one layout_tree is given, that of a child its parent's dimensions.
C14_BlockContentX ==
    pc = "returned" =>
        /\ root_box.box_type.tag = "BlockNode" =>
              PlacedIn(root_box, local_containing_block, TRUE)
        /\ \A b \in LaidOutBlocks(root_box) :
              \A k \in DOMAIN b.children :
                  b.children[k].box_type.tag = "BlockNode" =>
                      PlacedIn(b.children[k], b.dimensions, k = 1)

\* C14 witness: a laid-out block with a non-zero left margin whose first
\* child is a zero-edge block of width auto filling it, and whose second
\* child is a block with a non-zero left margin.
C14_Witness ==
    /\ pc = "returned"
    /\ \E b \in LaidOutBlocks(root_box) :
          /\ b.dimensions.margin.left > 0
          /\ Len(b.children) >= 2
          /\ b.children[1].box_type.tag = "BlockNode"
          /\ WidthAuto(b.children[1])
          /\ ZeroEdges(b.children[1].dimensions)
          /\ b.children[1].dimensions.content = 
                [b.dimensions.content EXCEPT !.height = 0]
          /\ b.children[2].box_type.tag = "BlockNode"
          /\ b.children[2].dimensions.margin.left > 0

\* The box's height property is an explicit pixel length.
HeightExplicit(b) ==
    LET h == value(b.box_type.node, "height")
    IN  h.tag = "Some" /\ h.v.tag = "Length"

\* C15: after layout, a laid-out block box whose height property is not an
\* explicit pixel length has content.height = the sum of the margin-box
\* heights of its children; one whose height is explicit has that height.
C15_AutoHeightIsSumOfChildren ==
    pc = "returned" =>
        \A b \in LaidOutBlocks(root_box) :
            b.dimensions.content.height =
                IF HeightExplicit(b)
                THEN to_px(value(b.box_type.node, "height").v)
                ELSE HeightOfFirst(b, Len(b.children))

\* C15 witness: a laid-out block of height auto with two block children of
\* explicit height: its content.height is the sum of their margin-box
\* heights, which exceeds the sum of their content heights, and the second
\* child lies one margin-box height of the first below the first.
C15_Witness ==
    /\ pc = "returned"
    /\ \E b \in LaidOutBlocks(root_box) :
          /\ ~HeightExplicit(b)
          /\ Len(b.children) = 2
          /\ \A k \in 1..2 : /\ b.children[k].box_type.tag = "BlockNode"
                              /\ HeightExplicit(b.children[k])
          /\ b.dimensions.content.height
                = margin_box(b.children[1].dimensions).height
                  + margin_box(b.children[2].dimensions).height
          /\ b.dimensions.content.height
                > b.children[1].dimensions.content.height
                  + b.children[2].dimensions.content.height
          /\ b.children[2].dimensions.content.y
                = b.children[1].dimensions.content.y
                  + margin_box(b.children[1].dimensions).height

RECURSIVE Generating(_)
RECURSIVE GeneratingOf(_)
\* The style nodes of the tree under style_node that are in no display:none
\* subtree below it, in document order, each with its display.
Generating(style_node) ==
    <<[display |-> display(style_node), node |-> style_node]>>
    \o GeneratingOf(style_node.children)

\* The same for a sequence of sibling style nodes, the display:none ones and
\* all below them left out.
GeneratingOf(kids) ==
    IF kids = <<>> THEN <<>>
    ELSE (IF display(kids[1]) = "None" THEN <<>> ELSE Generating(kids[1]))
         \o GeneratingOf(Tail(kids))

RECURSIVE Generated(_)
RECURSIVE GeneratedOf(_)
\* The BlockNode and InlineNode boxes of the layout tree under b, in
\* document order, each as the display it stands for and its style node.
Generated(b) ==
    (IF b.box_type.tag = "AnonymousBlock" THEN <<>>
     ELSE <<[display |-> IF b.box_type.tag = "BlockNode" THEN "Block"
                         ELSE "Inline",
             node |-> b.box_type.node]>>)
    \o GeneratedOf(b.children)

GeneratedOf(kids) ==
    IF kids = <<>> THEN <<>>
    ELSE Generated(kids[1]) \o GeneratedOf(Tail(kids))

RECURSIVE StyleNodes(_)
\* Every node of a style tree.
StyleNodes(style_node) ==
    {style_node} \cup UNION {StyleNodes(style_node.children[i]) :
                                i \in DOMAIN style_node.children}

\* C18: in the layout tree built, the BlockNode and InlineNode boxes are, in
\* document order, exactly the style nodes that are in no display:none
\* subtree, one box each, of the box type of the node's display; so a
\* non-root display:none node and everything below it has no box.  No step
\* of layout_tree changes the style tree, which keeps those nodes.
C18_NoBoxUnderDisplayNone ==
    /\ [](Built => Generated(root_box) = Generating(style_root))
    /\ [][style_root' = style_root]_vars

\* C18 witness: a tree has been built for a style tree in which a display:
\* none child has a display:block child of its own and is followed by a
\* visible sibling: the tree has fewer boxes than the style tree has nodes.
C18_Witness ==
    /\ pc = "returned"
    /\ Len(style_root.children) >= 2
    /\ display(style_root.children[1]) = "None"
    /\ Len(style_root.children[1].children) = 1
    /\ display(style_root.children[1].children[1]) = "Block"
    /\ display(style_root.children[2]) # "None"
    /\ Len(Generated(root_box)) = 2
    /\ Cardinality(StyleNodes(style_root)) = 4

RECURSIVE NotLaidOut(_)
RECURSIVE NotLaidOutOf(_)
\* The subtrees of the layout tree under b whose root is an InlineNode or
\* AnonymousBlock box and whose ancestors are all BlockNode boxes, in
\* document order.
NotLaidOut(b) ==
    IF b.box_type.tag = "BlockNode" THEN NotLaidOutOf(b.children) ELSE <<b>>

NotLaidOutOf(kids) ==
    IF kids = <<>> THEN <<>>
    ELSE NotLaidOut(kids[1]) \o NotLaidOutOf(Tail(kids))

\* C19: the layout step of layout_tree leaves every subtree under an
\* InlineNode or AnonymousBlock box as build_layout_tree made it, and after
\* layout_tree every InlineNode box, every AnonymousBlock box and every box
\* below one, BlockNode boxes included, has all-zero Dimensions.
C19_InlineAndAnonymousUntouched ==
    /\ [](pc = "returned" =>
             \A i \in DOMAIN NotLaidOut(root_box) :
                 \A b \in Boxes(NotLaidOut(root_box)[i]) :
                     b.dimensions = DefaultDimensions)
    /\ [][pc' = "returned" => NotLaidOut(root_box') = NotLaidOut(root_box)]_vars

\* C19 witness: layout_tree has returned a tree whose laid-out root block,
\* itself not at all-zero dimensions, has an AnonymousBlock child holding
\* an InlineNode box that has a BlockNode child of explicit height, all
\* three at all-zero dimensions.
C19_Witness ==
    /\ pc = "returned"
    /\ root_box.box_type.tag = "BlockNode"
    /\ root_box.dimensions # DefaultDimensions
    /\ Len(root_box.children) >= 1
    /\ root_box.children[1].box_type.tag = "AnonymousBlock"
    /\ root_box.children[1].dimensions = DefaultDimensions
    /\ \E j \in DOMAIN root_box.children[1].children :
          LET inl == root_box.children[1].children[j]
          IN  /\ inl.box_type.tag = "InlineNode"
              /\ inl.dimensions = DefaultDimensions
              /\ \E k \in DOMAIN inl.children :
                    /\ inl.children[k].box_type.tag = "BlockNode"
                    /\ HeightExplicit(inl.children[k])
                    /\ inl.children[k].dimensions = DefaultDimensions

\* C29: in every layout tree built, the root is not an AnonymousBlock, and
\* every AnonymousBlock box is a child of a BlockNode box, has at least one
\* child, has only InlineNode boxes as children, and has no AnonymousBlock
\* as the sibling just before or just after it.
C29_AnonymousBlockShape ==
    Built =>
        /\ root_box.box_type.tag # "AnonymousBlock"
        /\ \A b \in Boxes(root_box) :
              \A i \in DOMAIN b.children :
                  b.children[i].box_type.tag = "AnonymousBlock" =>
                      /\ b.box_type.tag = "BlockNode"
                      /\ Len(b.children[i].children) >= 1
                      /\ \A j \in DOMAIN b.children[i].children :
                            b.children[i].children[j].box_type.tag = "InlineNode"
                      /\ i > 1 =>
                            b.children[i - 1].box_type.tag # "AnonymousBlock"
                      /\ i < Len(b.children) =>
                            b.children[i + 1].box_type.tag # "AnonymousBlock"

\* C29 witness: a block root with style children inline, block, inline has
\* been built into an AnonymousBlock, the block and a second AnonymousBlock,
\* each AnonymousBlock holding one inline box.
C29_Witness ==
    /\ Built
    /\ root_box.box_type.tag = "BlockNode"
    /\ Len(root_box.children) = 3
    /\ root_box.children[1].box_type.tag = "AnonymousBlock"
    /\ root_box.children[2].box_type.tag = "BlockNode"
    /\ root_box.children[3].box_type.tag = "AnonymousBlock"
    /\ Len(root_box.children[1].children) = 1
    /\ Len(root_box.children[3].children) = 1

(***************************************************************************)
(* SpecSelectors: the selector list of one rule, as parse_selectors leaves *)
(* it.                                                                     *)
(***************************************************************************)
\* Largest number of selectors of a rule.
MaxSelectors == 2

\* The sequences over S of lengths lo..hi.
SeqsOf(S, lo, hi) == UNION {[1..n -> S] : n \in lo..hi}

\* p, #x, .a, .a.b and their combinations, and the universal selector.
SelectorPool ==
    {SimpleSelector(t, i, c) :
        t \in Opt({<<"p">>}), i \in Opt({<<"x">>}),
        c \in {<<>>, <<<<"a">>>>, <<<<"a">>, <<"b">>>>}}

InitSelectors ==
    /\ selectors \in SeqsOf(SelectorPool, 1, MaxSelectors)
    /\ pc = "parse_selectors"
    /\ element = Unused /\ stylesheet_tree = Unused
    /\ specified = Unused /\ matched = Unused
    /\ LayoutUnused

\* parse_selectors, lines 171-173: sort the selectors read, return them
ParseSelectors ==
    /\ pc = "parse_selectors"
    /\ selectors' = sort_selectors(selectors)
    /\ pc' = "parsed"
    /\ UNCHANGED <<layout_vars, element, stylesheet_tree, specified, matched>>

NextSelectors == ParseSelectors

SpecSelectors == InitSelectors /\ [][NextSelectors]_vars

\* a outranks b: a has an id and b has none; or they agree on that and a
\* has more classes; or they agree on both and a alone has a tag name.
Outranks(a, b) ==
    LET ida == IF a.id = None THEN 0 ELSE 1
        idb == IF b.id = None THEN 0 ELSE 1
        ta == IF a.tag_name = None THEN 0 ELSE 1
        tb == IF b.tag_name = None THEN 0 ELSE 1
    IN  \/ ida > idb
        \/ ida = idb /\ Len(a.class) > Len(b.class)
        \/ ida = idb /\ Len(a.class) = Len(b.class) /\ ta > tb

\* C7: specificity is (number of ids, number of classes, 0/1 for a tag
\* name) and the tuples compare lexicographically: one selector's
\* specificity is greater than another's exactly when it outranks it (id
\* first, then class count, then tag), and parse_selectors never leaves a
\* selector behind one that it outranks.
C7_SpecificityLexicographic ==
    \A i, j \in DOMAIN selectors :
        LET a == selectors[i]
            b == selectors[j]
        IN  /\ specificity(a) = <<IF a.id = None THEN 0 ELSE 1,
                                  Len(a.class),
                                  IF a.tag_name = None THEN 0 ELSE 1>>
            /\ (cmp(specificity(a), specificity(b)) = "Greater") = Outranks(a, b)
            /\ (cmp(specificity(a), specificity(b)) = "Less") = Outranks(b, a)
            /\ (pc = "parsed" /\ i < j) => ~Outranks(b, a)

\* C7 witness: parse_selectors was given a tag-and-two-class selector before
\* an id selector and returned the id selector first.
C7_Witness ==
    /\ pc = "parsed"
    /\ Len(selectors) >= 2
    /\ selectors[1] = SimpleSelector(None, Some(<<"x">>), <<>>)
    /\ selectors[2] = SimpleSelector(Some(<<"p">>), None, <<<<"a">>, <<"b">>>>)

(***************************************************************************)
(* SpecMatch: matches on one element and one selector.                     *)
(***************************************************************************)
\* Largest length of a class attribute, in characters.
MaxClassLen == 3

\* The characters of a class attribute: two letters, the space, the tab.
ClassChars == {"a", "b", " ", "\t"}

MatchElements ==
    {ElementData(t, PropertyMapOf([n \in {"id", "class"} |->
                                      IF n = "id" THEN i ELSE c])) :
        t \in {<<"p">>, <<"q">>},
        i \in Opt({<<"x">>, <<"y">>}),
        c \in Opt(SeqsOf(ClassChars, 0, MaxClassLen))}

MatchSelectors ==
    {SimpleSelector(t, i, c) :
        t \in Opt({<<"p">>}), i \in Opt({<<"x">>}),
        c \in {<<>>, <<<<"a">>>>, <<<<"b">>>>, <<<<"a">>, <<"b">>>>,
               <<<<"a", "b">>>>}}

InitMatch ==
    /\ element \in MatchElements
    /\ selectors \in {<<sel>> : sel \in MatchSelectors}
    /\ matched = Unused
    /\ pc = "matches"
    /\ stylesheet_tree = Unused /\ specified = Unused
    /\ LayoutUnused

\* matches(elem, selector), as match_rule calls it on a selector of a rule
Matches ==
    /\ pc = "matches"
    /\ matched' = matches(element, selectors[1])
    /\ pc' = "matched"
    /\ UNCHANGED <<layout_vars, element, stylesheet_tree, specified, selectors>>

NextMatch == Matches

SpecMatch == InitMatch /\ [][NextMatch]_vars

\* C8: matches is true exactly when the selector's tag name is absent or
\* the element's, its id is absent or the element's id attribute, and all
\* its classes are in the element's class set; so the selector with no tag,
\* id or class matches every element, and an id selector matches no element
\* without an id attribute.
C8_MatchesIffAllComponents ==
    pc = "matched" =>
        LET sel == selectors[1] IN
        /\ matched =
              (/\ sel.tag_name = None \/ sel.tag_name = Some(element.tag_name)
               /\ sel.id = None
                  \/ ("id" \in DOMAIN element.attributes
                      /\ element.attributes["id"] = sel.id.v)
               /\ \A k \in DOMAIN sel.class : sel.class[k] \in classes(element))
        /\ sel = SimpleSelector(None, None, <<>>) => matched
        /\ (sel.id # None /\ "id" \notin DOMAIN element.attributes) => ~matched

\* C8 witness: a selector with a tag, an id and a class has matched an
\* element that has more classes than the selector names.
C8_Witness ==
    /\ pc = "matched"
    /\ matched
    /\ selectors[1] = SimpleSelector(Some(<<"p">>), Some(<<"x">>), <<<<"a">>>>)
    /\ Cardinality(classes(element)) >= 2

\* A whitespace character (char::is_whitespace, within ClassChars).
IsWhitespace(ch) == ch \in {" ", "\t"}

\* The tokens of a string split on whitespace: its maximal runs of
\* characters that are not whitespace.
WhitespaceTokens(str) ==
    {SubSeq(str, r[1], r[2]) :
        r \in {q \in (DOMAIN str) \X (DOMAIN str) :
                 /\ q[1] <= q[2]
                 /\ \A m \in q[1]..q[2] : ~IsWhitespace(str[m])
                 /\ q[1] = 1 \/ IsWhitespace(str[q[1] - 1])
                 /\ q[2] = Len(str) \/ IsWhitespace(str[q[2] + 1])}}

\* C9 as claimed: a selector of the single class cls matches an element
\* exactly when cls is one of the tokens of the element's class attribute
\* split on whitespace (any whitespace character, no empty token).
C9_ClassMatchesWhitespaceToken ==
    (/\ pc = "matched"
     /\ selectors[1].tag_name = None /\ selectors[1].id = None
     /\ Len(selectors[1].class) = 1)
    => matched =
          (/\ "class" \in DOMAIN element.attributes
           /\ selectors[1].class[1]
                 \in WhitespaceTokens(element.attributes["class"]))

(***************************************************************************)
(* SpecCascade: specified_values on one element and every stylesheet of at *)
(* most MaxRules rules.                                                    *)
(***************************************************************************)
\* Largest number of rules of a stylesheet.
MaxRules == 2

\* <p>, with or without id="x", with or without class="a b".
CascadeElements ==
    {ElementData(<<"p">>, PropertyMapOf([n \in {"id", "class"} |->
                                            IF n = "id" THEN i ELSE c])) :
        i \in Opt({<<"x">>}), c \in Opt({<<"a", " ", "b">>})}

\* #x, .a and p
CascadeSelectors ==
    {SimpleSelector(None, Some(<<"x">>), <<>>),
     SimpleSelector(None, None, <<<<"a">>>>),
     SimpleSelector(Some(<<"p">>), None, <<>>)}

\* The declaration blocks of the rules.
CascadeDeclarations ==
    {<<Declaration("color", Keyword("red"))>>,
     <<Declaration("color", Keyword("blue"))>>,
     <<Declaration("display", Keyword("block"))>>,
     <<Declaration("color", Keyword("red")), Declaration("color", Keyword("blue"))>>}

\* The rules the CSS parser makes of one or two selectors and a declaration
\* block: parse_rule stores the selectors as parse_selectors sorts them.
CascadeRules ==
    {Rule(sort_selectors(sl), d) :
        sl \in SeqsOf(CascadeSelectors, 1, 2), d \in CascadeDeclarations}

InitCascade ==
    /\ element \in CascadeElements
    /\ stylesheet_tree \in {[rules |-> r] : r \in SeqsOf(CascadeRules, 0, MaxRules)}
    /\ specified = Unused
    /\ selectors = Unused /\ matched = Unused
    /\ pc = "specified_values"
    /\ LayoutUnused

\* specified_values(elem, stylesheet), as style_tree calls it on an element
SpecifiedValues ==
    /\ pc = "specified_values"
    /\ specified' = specified_values(element, stylesheet_tree)
    /\ pc' = "styled"
    /\ UNCHANGED <<layout_vars, element, stylesheet_tree, selectors, matched>>

NextCascade == SpecifiedValues

SpecCascade == InitCascade /\ [][NextCascade]_vars

\* Rule i of the stylesheet declares property p.
Declares(i, p) ==
    \E k \in DOMAIN stylesheet_tree.rules[i].declarations :
        stylesheet_tree.rules[i].declarations[k].name = p

\* The value rule i gives property p: that of its last declaration of p.
DeclaredValue(i, p) ==
    LET ds == stylesheet_tree.rules[i].declarations
        last == CHOOSE k \in DOMAIN ds :
                   ds[k].name = p /\ \A m \in DOMAIN ds : ds[m].name = p => m <= k
    IN  ds[last].value

\* The selectors of rule i that match the element.
MatchingSelectors(i) ==
    {sel \in collect(stylesheet_tree.rules[i].selectors) : matches(element, sel)}

\* The effective specificity of rule i: the greatest specificity among its
\* selectors that match the element.
Effective(i) ==
    LET best == CHOOSE a \in MatchingSelectors(i) :
                   \A b \in MatchingSelectors(i) :
                       cmp(specificity(b), specificity(a)) # "Greater"
    IN  specificity(best)

\* The rules that match the element and declare property p.
Contenders(p) ==
    {i \in DOMAIN stylesheet_tree.rules : MatchingSelectors(i) # {} /\ Declares(i, p)}

CascadeProperties == {"color", "display"}

\* C5: when matching rules declare the same property with different
\* effective specificities, the specified value is the one of the rule of
\* highest specificity, wherever that rule stands in the stylesheet.
C5_HigherSpecificityWins ==
    pc = "styled" =>
        \A p \in CascadeProperties :
            \A i \in Contenders(p) :
                (/\ Contenders(p) # {i}
                 /\ \A j \in Contenders(p) \ {i} :
                       cmp(Effective(j), Effective(i)) = "Less")
                => /\ p \in DOMAIN specified
                   /\ specified[p] = DeclaredValue(i, p)

\* C5 witness: the first rule has the higher effective specificity, the
\* second declares another colour, and the first rule's colour is specified.
C5_Witness ==
    /\ pc = "styled"
    /\ Len(stylesheet_tree.rules) = 2
    /\ Contenders("color") = {1, 2}
    /\ cmp(Effective(1), Effective(2)) = "Greater"
    /\ DeclaredValue(1, "color") # DeclaredValue(2, "color")
    /\ specified["color"] = DeclaredValue(1, "color")

\* C6: when matching rules of equal effective specificity declare the same
\* property, and no matching rule of higher specificity declares it, the
\* specified value is the one of the rule that comes last in the stylesheet.
C6_LaterRuleWinsTies ==
    pc = "styled" =>
        \A p \in CascadeProperties :
            \A i \in Contenders(p) :
                (/\ \E j \in Contenders(p) :
                       j < i /\ cmp(Effective(j), Effective(i)) = "Equal"
                 /\ \A j \in Contenders(p) \ {i} :
                       \/ cmp(Effective(j), Effective(i)) = "Less"
                       \/ cmp(Effective(j), Effective(i)) = "Equal" /\ j < i)
                => /\ p \in DOMAIN specified
                   /\ specified[p] = DeclaredValue(i, p)

\* C6 witness: two rules of equal effective specificity with different
\* selectors declare different colours and the second rule's is specified.
C6_Witness ==
    /\ pc = "styled"
    /\ Len(stylesheet_tree.rules) = 2
    /\ Contenders("color") = {1, 2}
    /\ cmp(Effective(1), Effective(2)) = "Equal"
    /\ stylesheet_tree.rules[1].selectors # stylesheet_tree.rules[2].selectors
    /\ DeclaredValue(1, "color") # DeclaredValue(2, "color")
    /\ specified["color"] = DeclaredValue(2, "color")

(***************************************************************************)
(* SpecStyledNode: the accessors of one StyledNode, display and lookup, on *)
(* every combination of a display value and the two margin properties      *)
(* lookup is asked for.                                                     *)
(***************************************************************************)
\* The values the display property may be given: the two keywords display
\* knows, other keywords, a length and a colour.
DisplayValues ==
    {Keyword("block"), Keyword("none"), Keyword("inline"), Keyword("flex"),
     auto, Px(1), ColorValue(0, 0, 0, 255)}

InitStyledNode ==
    \E d \in Opt(DisplayValues),
       ml \in Opt(Lengths \cup {auto}),
       m \in Opt(Lengths \cup {auto}) :
        /\ style_root = StyledNode(
              PropertyMapOf(
                 [n \in {"display", "margin-left", "margin"} |->
                    CASE n = "display" -> d
                      [] n = "margin-left" -> ml
                      [] n = "margin" -> m]),
              <<>>)
        /\ initial_containing_block = Unused
        /\ local_containing_block = Unused
        /\ root_box = Unused
        /\ returned = Unused
        /\ pc = "styled_node"
        /\ StyleUnused

\* style_node.display(), as build_layout_tree calls it
Display ==
    /\ pc = "styled_node"
    /\ returned' = display(style_root)
    /\ pc' = "display"
    /\ UNCHANGED <<style_root, initial_containing_block, local_containing_block,
                   root_box, style_vars>>

\* style.lookup("margin-left", "margin", &zero), as calculate_block_width
\* calls it
Lookup ==
    /\ pc = "styled_node"
    /\ returned' = lookup(style_root, "margin-left", "margin", zero)
    /\ pc' = "lookup"
    /\ UNCHANGED <<style_root, initial_containing_block, local_containing_block,
                   root_box, style_vars>>

NextStyledNode == Display \/ Lookup

SpecStyledNode == InitStyledNode /\ [][NextStyledNode]_vars

\* The node specifies property name with value val.
Specifies(name, val) ==
    /\ name \in DOMAIN style_root.specified_values
    /\ style_root.specified_values[name] = val

\* C12: display returns Block exactly when the specified display value is
\* the keyword block, None exactly when it is the keyword none, and Inline
\* in every other case (unset, another keyword, a length, a colour).
C12_DisplayOfKeyword ==
    pc = "display" =>
        /\ returned \in {"Block", "None", "Inline"}
        /\ returned = "Block" <=> Specifies("display", Keyword("block"))
        /\ returned = "None" <=> Specifies("display", Keyword("none"))

\* C12 witness: display has returned Inline for a display value that is a
\* length.
C12_Witness ==
    /\ pc = "display"
    /\ Specifies("display", Px(1))
    /\ returned = "Inline"

\* C13: lookup(primary, shorthand, default) returns the value specified for
\* primary if there is one, otherwise the value specified for shorthand if
\* there is one, otherwise default.
C13_LookupPrimaryThenShorthand ==
    pc = "lookup" =>
        LET sv == style_root.specified_values
        IN  returned = IF "margin-left" \in DOMAIN sv THEN sv["margin-left"]
                       ELSE IF "margin" \in DOMAIN sv THEN sv["margin"]
                       ELSE zero

\* C13 witness: lookup has returned the value of margin-left for a node that
\* specifies a different value for margin.
C13_Witness ==
    /\ pc = "lookup"
    /\ Specifies("margin-left", Px(1))
    /\ Specifies("margin", auto)
    /\ returned = Px(1)

(***************************************************************************)
(* SpecBoxes: the box accessors of one Dimensions value, and expanded_by   *)
(* applied to its content rectangle and then to the result.                *)
(***************************************************************************)
\* The edge sizes of a padding, border or margin, in half pixels; a margin
\* can be negative (calculate_block_width makes it so on overflow).
EdgePool ==
    {EdgeSizes(0, 0, 0, 0),
     EdgeSizes(1, 2, 3, 2 * MaxPx),
     EdgeSizes(2, 0 - 2 * MaxPx, 0, 1)}

\* The content rectangles.
ContentPool ==
    {Rect(x, y, w, h) : x \in {0, 2}, y \in {0, 3},
                        w \in {0, 2 * MaxWidth}, h \in {0, 2 * MaxPx}}

InitBoxes ==
    /\ initial_containing_block \in
          [content : ContentPool, padding : EdgePool, border : EdgePool,
           margin : EdgePool]
    /\ style_root = Unused
    /\ local_containing_block = Unused
    /\ root_box = Unused
    /\ returned = Unused
    /\ pc = "dimensions"
    /\ StyleUnused

\* d.padding_box(), d.border_box() and d.margin_box()
BoxesOfDimensions ==
    /\ pc = "dimensions"
    /\ returned' = [padding_box |-> padding_box(initial_containing_block),
                    border_box |-> border_box(initial_containing_block),
                    margin_box |-> margin_box(initial_containing_block)]
    /\ pc' = "boxes"
    /\ UNCHANGED <<style_root, initial_containing_block, local_containing_block,
                   root_box, style_vars>>

\* The edge sizes e with every size negated.
Negated(e) == EdgeSizes(0 - e.left, 0 - e.right, 0 - e.top, 0 - e.bottom)

\* d.content.expanded_by(d.margin)
ExpandedBy ==
    /\ pc = "dimensions"
    /\ returned' = expanded_by(initial_containing_block.content,
                               initial_containing_block.margin)
    /\ pc' = "expanded"
    /\ UNCHANGED <<style_root, initial_containing_block, local_containing_block,
                   root_box, style_vars>>

\* expanded_by applied to that result with the same edge sizes negated
ShrunkBy ==
    /\ pc = "expanded"
    /\ returned' = expanded_by(returned, Negated(initial_containing_block.margin))
    /\ pc' = "shrunk"
    /\ UNCHANGED <<style_root, initial_containing_block, local_containing_block,
                   root_box, style_vars>>

NextBoxes == BoxesOfDimensions \/ ExpandedBy \/ ShrunkBy

SpecBoxes == InitBoxes /\ [][NextBoxes]_vars

\* Rectangle outer is rectangle inner grown outward by the edge sizes e.
Grown(inner, outer, e) ==
    /\ outer.x = inner.x - e.left
    /\ outer.y = inner.y - e.top
    /\ outer.width = inner.width + e.left + e.right
    /\ outer.height = inner.height + e.top + e.bottom

\* C16: padding_box is content grown by padding, border_box is padding_box
\* grown by border, margin_box is border_box grown by margin; margin_box of
\* a Dimensions with all-zero padding, border and margin is its content;
\* and a rectangle expanded by edge sizes e and then by the negated e is the
\* rectangle again.
C16_BoxesAreSuccessiveExpansions ==
    LET d == initial_containing_block
    IN  /\ pc = "boxes" =>
              /\ Grown(d.content, returned.padding_box, d.padding)
              /\ Grown(returned.padding_box, returned.border_box, d.border)
              /\ Grown(returned.border_box, returned.margin_box, d.margin)
              /\ ZeroEdges(d) => returned.margin_box = d.content
        /\ pc = "expanded" => Grown(d.content, returned, d.margin)
        /\ pc = "shrunk" => returned = d.content

\* C16 witness: a content rectangle has been expanded by edge sizes that are
\* all different and not all positive, and then shrunk back to itself.
C16_Witness ==
    /\ pc = "shrunk"
    /\ initial_containing_block.margin = EdgeSizes(2, 0 - 2 * MaxPx, 0, 1)
    /\ initial_containing_block.content.width > 0
    /\ returned = initial_containing_block.content

(***************************************************************************)
(* SpecStyleTree: style_tree on every DOM tree of at most MaxDomNodes      *)
(* nodes and every stylesheet of at most MaxRules rules.                   *)
(***************************************************************************)
\* Largest number of nodes of a DOM tree.
MaxDomNodes == 3

\* The elements of the DOM trees: <p> and <p class="a">.
DomElements ==
    {ElementData(<<"p">>, [n \in {} |-> <<>>]),
     ElementData(<<"p">>, [n \in {"class"} |-> <<"a">>])}

RECURSIVE DomTreesOfSize(_)
RECURSIVE DomForestsOfSize(_)

\* The DOM trees of exactly n nodes; a text node has no children.
DomTreesOfSize(n) ==
    (IF n = 1 THEN {text(<<"h", "i">>)} ELSE {})
    \cup {element_node(e.tag_name, e.attributes, f) :
             e \in DomElements, f \in DomForestsOfSize(n - 1)}

\* The sequences of DOM trees of m nodes in all.
DomForestsOfSize(m) ==
    IF m = 0 THEN {<<>>}
    ELSE UNION {{<<t>> \o f : t \in DomTreesOfSize(k),
                              f \in DomForestsOfSize(m - k)} : k \in 1..m}

\* The DOM trees of at most max nodes.
DomTrees(max) == UNION {DomTreesOfSize(n) : n \in 1..max}

\* The universal rule * { display: block }, and the rules
\* .a { color: red } and p { display: none }.
StyleTreeRules ==
    {Rule(<<SimpleSelector(None, None, <<>>)>>,
          <<Declaration("display", Keyword("block"))>>),
     Rule(<<SimpleSelector(None, None, <<<<"a">>>>)>>,
          <<Declaration("color", Keyword("red"))>>),
     Rule(<<SimpleSelector(Some(<<"p">>), None, <<>>)>>,
          <<Declaration("display", Keyword("none"))>>)}

InitStyleTree ==
    /\ element \in DomTrees(MaxDomNodes)
    /\ stylesheet_tree \in
          {[rules |-> r] : r \in SeqsOf(StyleTreeRules, 0, MaxRules)}
    /\ specified = Unused /\ selectors = Unused /\ matched = Unused
    /\ pc = "style_tree"
    /\ LayoutUnused

\* style::style_tree(&root_node, &stylesheet), as main calls it
StyleTree ==
    /\ pc = "style_tree"
    /\ style_root' = style_tree(element, stylesheet_tree)
    /\ pc' = "styled_tree"
    /\ UNCHANGED <<initial_containing_block, local_containing_block, root_box,
                   returned, style_vars>>

NextStyleTree == StyleTree

SpecStyleTree == InitStyleTree /\ [][NextStyleTree]_vars

RECURSIVE StyledLike(_, _)
\* The styled tree has the shape of the DOM tree dom: its root is the
\* StyledNode of dom's root, with an empty map if that is a text node, and
\* its children are, in order, styled trees of the shape of dom's children.
StyledLike(styled, dom) ==
    /\ styled.node = dom
    /\ dom.node_type.tag = "Text" => DOMAIN styled.specified_values = {}
    /\ Len(styled.children) = Len(dom.children)
    /\ \A i \in DOMAIN dom.children :
          StyledLike(styled.children[i], dom.children[i])

\* C17: style_tree returns a tree of the shape of the Node tree: one
\* StyledNode per Node, holding that Node, children in the same order; and
\* the specified_values of every text node is the empty map, whatever the
\* stylesheet.
C17_StyleTreeMirrorsDom ==
    pc = "styled_tree" => StyledLike(style_root, element)

\* C17 witness: under a stylesheet with the universal rule, an element with
\* a text child and then an element child has been styled: the element
\* children got display from the universal rule, the text node nothing.
C17_Witness ==
    /\ pc = "styled_tree"
    /\ \E i \in DOMAIN stylesheet_tree.rules :
          stylesheet_tree.rules[i].selectors[1] = SimpleSelector(None, None, <<>>)
    /\ Len(style_root.children) = 2
    /\ style_root.children[1].node.node_type.tag = "Text"
    /\ style_root.children[1].specified_values = [n \in {} |-> auto]
    /\ style_root.children[2].node.node_type.tag = "Element"
    /\ "display" \in DOMAIN style_root.children[2].specified_values
    /\ "display" \in DOMAIN style_root.specified_values

(***************************************************************************)
(* SpecHeight: calculate_block_height on a block box whose children have   *)
(* been laid out, for every kind of height value.                          *)
(***************************************************************************)
\* The values the height property may be given: lengths, the keyword auto
\* and a colour.
HeightValues == Lengths \cup {auto, ColorValue(0, 0, 0, 255)}

\* A laid-out child box of content height h half pixels.
LaidOutChild(h) ==
    LET style == StyledNode(("display" :> Keyword("block"))
                            @@ ("height" :> Length(h)), <<>>)
    IN  [NewLayoutBox(BlockNode(style)) EXCEPT !.dimensions.content.height = h]

\* The sequences of at most two laid-out children, shorter and taller than
\* the heights a parent may specify.
LaidOutChildren ==
    SeqsOf({LaidOutChild(h) : h \in {0, 1, 2 * (MaxPx + 1)}}, 0, 2)

\* The box as layout_block_children leaves it: content.height is the sum of
\* the margin-box heights of the children.
InitHeight ==
    \E h \in Opt(HeightValues), kids \in LaidOutChildren :
        /\ style_root = StyledNode(
              PropertyMapOf([n \in {"display", "height"} |->
                               IF n = "display" THEN Some(Keyword("block")) ELSE h]),
              [i \in DOMAIN kids |-> kids[i].box_type.node])
        /\ root_box =
              [NewLayoutBox(BlockNode(style_root)) EXCEPT
                 !.children = kids,
                 !.dimensions.content.height =
                    sum([i \in DOMAIN kids |->
                            margin_box(kids[i].dimensions).height])]
        /\ initial_containing_block = Unused
        /\ local_containing_block = Unused
        /\ returned = Unused
        /\ pc = "height"
        /\ StyleUnused

\* self.calculate_block_height(), the last step of layout_block
CalculateBlockHeight ==
    /\ pc = "height"
    /\ root_box' = calculate_block_height(root_box)
    /\ pc' = "height_done"
    /\ UNCHANGED <<style_root, initial_containing_block, local_containing_block,
                   returned, style_vars>>

NextHeight == CalculateBlockHeight

SpecHeight == InitHeight /\ [][NextHeight]_vars

\* C25: calculate_block_height sets content.height to h, and nothing else,
\* when the height property is a pixel length h, whatever the children
\* accumulated; when height is unset, a keyword or a colour it changes
\* nothing, so content.height stays the accumulated height of the children.
C25_ExplicitHeightOverrides ==
    /\ [][pc = "height" =>
            root_box' =
               IF "height" \in DOMAIN style_root.specified_values
                  /\ style_root.specified_values["height"] \in Lengths
               THEN [root_box EXCEPT !.dimensions.content.height =
                        style_root.specified_values["height"].v]
               ELSE root_box]_vars
    /\ [](pc = "height_done" =>
             (HeightExplicit(root_box) \/
              root_box.dimensions.content.height
                 = HeightOfFirst(root_box, Len(root_box.children))))

\* C25 witness: a box of height 1px whose children add up to more than
\* that has been given content.height 1px.
C25_Witness ==
    /\ pc = "height_done"
    /\ Specifies("height", Px(1))
    /\ HeightOfFirst(root_box, Len(root_box.children)) > 2
    /\ root_box.dimensions.content.height = 2

(***************************************************************************)
(* SpecBlock: layout_block on the root block of a built layout tree, one   *)
(* statement at a time, the loop of layout_block_children one child at a   *)
(* time.                                                                   *)
(***************************************************************************)
\* layout_block with calculate_block_height called before the children are
\* laid out.
layout_block_steps_height_first == <<"width", "position", "height", "children">>

\* The statements of layout_block, lines 177-190, in program order.
layout_block_steps == <<"width", "position", "children", "height">>

\* The statement after step, "done" after the last.
StepAfter(step) ==
    LET k == CHOOSE j \in DOMAIN layout_block_steps : layout_block_steps[j] = step
    IN  IF k = Len(layout_block_steps) THEN "done" ELSE layout_block_steps[k + 1]

\* One iteration of the loop of layout_block_children, on child i: the
\* child is laid out in self.dimensions as they are then, and its
\* margin-box height is added to content.height.
layout_block_child(self, i) ==
    LET child == layout(self.children[i], self.dimensions)
    IN  IF IsPanic(child) THEN child
        ELSE [self EXCEPT !.children[i] = child,
                          !.dimensions.content.height =
                              self.dimensions.content.height
                              + margin_box(child.dimensions).height]

InitBlock ==
    /\ style_root \in {t \in StyleTrees(MaxNodes - 1) : display(t) = "Block"}
    /\ initial_containing_block \in InitialContainingBlocks
    /\ local_containing_block = None
    /\ root_box = build_layout_tree(style_root)
    /\ returned = 1
    /\ pc = layout_block_steps[1]
    /\ StyleUnused

\* self.calculate_block_width(containing_block)
BlockWidth ==
    /\ pc = "width"
    /\ root_box' = calculate_block_width(root_box, initial_containing_block)
    /\ pc' = StepAfter("width")
    /\ UNCHANGED <<style_root, initial_containing_block, local_containing_block,
                   returned, style_vars>>

\* self.calculate_block_position(containing_block)
BlockPosition ==
    /\ pc = "position"
    /\ root_box' = calculate_block_position(root_box, initial_containing_block)
    /\ pc' = StepAfter("position")
    /\ UNCHANGED <<style_root, initial_containing_block, local_containing_block,
                   returned, style_vars>>

\* layout_block_children: child.layout of the parent's dimensions and the
\* height update for the next child of the loop; local_containing_block
\* records the dimensions passed.
BlockChild ==
    /\ pc = "children"
    /\ returned <= Len(root_box.children)
    /\ local_containing_block' = root_box.dimensions
    /\ root_box' = layout_block_child(root_box, returned)
    /\ returned' = returned + 1
    /\ UNCHANGED <<pc, style_root, initial_containing_block, style_vars>>

\* layout_block_children: the loop has run out of children
BlockChildrenDone ==
    /\ pc = "children"
    /\ returned > Len(root_box.children)
    /\ pc' = StepAfter("children")
    /\ UNCHANGED <<layout_vars, style_vars>>

\* self.calculate_block_height()
BlockHeight ==
    /\ pc = "height"
    /\ root_box' = calculate_block_height(root_box)
    /\ pc' = StepAfter("height")
    /\ UNCHANGED <<style_root, initial_containing_block, local_containing_block,
                   returned, style_vars>>

NextBlock ==
    BlockWidth \/ BlockPosition \/ BlockChild \/ BlockChildrenDone \/ BlockHeight

SpecBlock == InitBlock /\ [][NextBlock]_vars

\* C26: whenever a child has been laid out, the containing block it was
\* handed carries the parent's content.width, content.x and content.y,
\* which no later step changes (so they are the final ones), and a
\* content.height equal to the sum of the margin-box heights of the
\* children before it, whatever the parent's height property; the height
\* property is applied only by the last step.  The steps taken one at a
\* time end in the box layout_block computes.
C26_ChildrenSeeRunningHeight ==
    /\ [](local_containing_block # None =>
            /\ local_containing_block.content.width
                  = root_box.dimensions.content.width
            /\ local_containing_block.content.x = root_box.dimensions.content.x
            /\ local_containing_block.content.y = root_box.dimensions.content.y
            /\ local_containing_block.content.height
                  = HeightOfFirst(root_box, returned - 2))
    /\ [](pc = "done" =>
            /\ returned = Len(root_box.children) + 1
            /\ root_box = layout_block(build_layout_tree(style_root),
                                       initial_containing_block))
    /\ [][pc = "children" =>
            /\ root_box'.dimensions.content.width
                  = root_box.dimensions.content.width
            /\ root_box'.dimensions.content.x = root_box.dimensions.content.x
            /\ root_box'.dimensions.content.y = root_box.dimensions.content.y]_vars

\* C26 witness: a block of explicit height has been laid out whose second
\* child is a block that was handed a containing block of the height of
\* the first child's margin box, which is neither 0 nor the parent's
\* explicit height.
C26_Witness ==
    /\ pc = "done"
    /\ HeightExplicit(root_box)
    /\ Len(root_box.children) = 2
    /\ root_box.children[2].box_type.tag = "BlockNode"
    /\ local_containing_block.content.height
          = margin_box(root_box.children[1].dimensions).height
    /\ local_containing_block.content.height > 0
    /\ local_containing_block.content.height
          # root_box.dimensions.content.height

(***************************************************************************)
(* SpecMatchRule: the selector list of one rule is read and sorted by      *)
(* parse_selectors, and the rule is then matched against an element.       *)
(***************************************************************************)
\* <p>, <p class="a">, <p id="x" class="a b"> and <q id="x">
MatchRuleElements ==
    {ElementData(<<"p">>, [n \in {} |-> <<>>]),
     ElementData(<<"p">>, [n \in {"class"} |-> <<"a">>]),
     ElementData(<<"p">>, ("id" :> <<"x">>) @@ ("class" :> <<"a", " ", "b">>)),
     ElementData(<<"q">>, [n \in {"id"} |-> <<"x">>])}

\* The rule parse_rule makes of the selectors and a declaration block.
RuleOfSelectors ==
    Rule(selectors, <<Declaration("display", Keyword("block"))>>)

InitMatchRule ==
    /\ element \in MatchRuleElements
    /\ selectors \in SeqsOf(SelectorPool, 1, MaxSelectors)
    /\ pc = "parse_selectors"
    /\ stylesheet_tree = Unused /\ specified = Unused /\ matched = Unused
    /\ LayoutUnused

\* matching_rules(elem, stylesheet) on the stylesheet of that one rule: the
\* filter_map calls match_rule(elem, rule)
MatchRule ==
    /\ pc = "parsed"
    /\ matched' = matching_rules(element, [rules |-> <<RuleOfSelectors>>])
    /\ pc' = "rule_matched"
    /\ UNCHANGED <<layout_vars, element, stylesheet_tree, specified, selectors>>

NextMatchRule == ParseSelectors \/ MatchRule

SpecMatchRule == InitMatchRule /\ [][NextMatchRule]_vars

\* The selectors of the rule that match the element.
Matching == {i \in DOMAIN selectors : matches(element, selectors[i])}

\* C27: the selector list parse_selectors returns is sorted by specificity,
\* highest first; and matching the rule yields nothing when none of its
\* selectors matches the element, and otherwise the rule exactly once, with
\* the highest specificity among its selectors that match.
C27_RuleMatchedAtHighestSpecificity ==
    /\ pc \in {"parsed", "rule_matched"} =>
          \A i, j \in DOMAIN selectors :
              i < j => cmp(specificity(selectors[i]),
                           specificity(selectors[j])) # "Less"
    /\ pc = "rule_matched" =>
          IF Matching = {} THEN matched = <<>>
          ELSE /\ Len(matched) = 1
               /\ matched[1][2] = RuleOfSelectors
               /\ \E i \in Matching : matched[1][1] = specificity(selectors[i])
               /\ \A i \in Matching :
                     cmp(matched[1][1], specificity(selectors[i])) # "Less"

\* C27 witness: a rule of two selectors that both match the element, the
\* first with an id and of higher specificity than the second, has been
\* matched once, at the specificity of the first.
C27_Witness ==
    /\ pc = "rule_matched"
    /\ Len(selectors) = 2
    /\ Matching = {1, 2}
    /\ cmp(specificity(selectors[1]), specificity(selectors[2])) = "Greater"
    /\ selectors[1].id # None
    /\ matched = <<<<specificity(selectors[1]), RuleOfSelectors>>>>

(***************************************************************************)
(* SpecLayoutTree: layout_tree as one call, on containing blocks that      *)
(* differ in their content height.                                         *)
(***************************************************************************)
\* The content heights a caller may pass, in half pixels; main.rs passes a
\* height that is not 0.
ContainingHeights == {0, 1, 2 * MaxWidth}

\* The containing block cb with content height h.
WithHeight(cb, h) == [cb EXCEPT !.content.height = h]

InitLayoutTree ==
    /\ style_root \in StyleTrees(MaxNodes - 1)
    /\ initial_containing_block \in
          {[DefaultDimensions EXCEPT !.content = Rect(2, 2, 2 * MaxWidth, h)] :
              h \in ContainingHeights}
    /\ local_containing_block = Unused
    /\ root_box = None
    /\ returned = Unused
    /\ pc = "layout_tree"
    /\ StyleUnused

\* layout::layout_tree(&style_tree, initial_containing_block), as main
\* calls it
LayoutTree ==
    /\ pc = "layout_tree"
    /\ root_box' = layout_tree(style_root, initial_containing_block)
    /\ pc' = IF IsPanic(root_box') THEN "panicked" ELSE "returned"
    /\ UNCHANGED <<style_root, initial_containing_block, local_containing_block,
                   returned, style_vars>>

NextLayoutTree == LayoutTree

SpecLayoutTree == InitLayoutTree /\ [][NextLayoutTree]_vars

\* The outcome of layout_tree is the one it has for every other content
\* height of the containing block.
HeightIgnored ==
    pc \in {"returned", "panicked"} =>
        \A h \in ContainingHeights :
            layout_tree(style_root, WithHeight(initial_containing_block, h))
               = root_box

\* The root lies at the top of the containing block, below its own top
\* margin, border and padding.
RootAtTop ==
    LET d == root_box.dimensions
    IN  d.content.y = initial_containing_block.content.y
                      + d.margin.top + d.border.top + d.padding.top

\* C28 as claimed: the outcome of layout_tree does not depend on the
\* content height of the containing block, and the root's content.y is
\* containing.y + the root's margin.top + border.top + padding.top.
C28_Original ==
    /\ HeightIgnored
    /\ pc = "returned" => RootAtTop

\* C28 amended: the outcome of layout_tree does not depend on the content
\* height of the containing block; a root that is a block box has
\* content.y = containing.y + its margin.top + border.top + padding.top;
\* a root that is an inline box is not laid out and has all-zero
\* Dimensions, so its content.y is 0 wherever the containing block is.
C28_ContainingHeightIgnored ==
    /\ HeightIgnored
    /\ pc = "returned" =>
          IF root_box.box_type.tag = "BlockNode"
          THEN RootAtTop
          ELSE root_box.dimensions = DefaultDimensions

\* C28 witness: layout_tree, called with a containing block of non-zero
\* height, has returned a block root with a top margin and a block child,
\* the root at containing.y + its top edges and the child not pushed down
\* by the containing block's height.
C28_Witness ==
    /\ pc = "returned"
    /\ initial_containing_block.content.height > 0
    /\ root_box.box_type.tag = "BlockNode"
    /\ root_box.dimensions.margin.top > 0
    /\ RootAtTop
    /\ Len(root_box.children) >= 1
    /\ root_box.children[1].box_type.tag = "BlockNode"
    /\ root_box.children[1].dimensions.content.y
          < initial_containing_block.content.y
            + initial_containing_block.content.height
====
